---- MODULE Spec2Model ----
(***************************************************************************)
(* Agentic Shopper browser extension: the popup, the background service    *)
(* worker (FIND_DEALS agent loop: gather -> rank -> respond) and the       *)
(* network / tab collaborators it awaits.                                  *)
(*                                                                         *)
(* Every `await` of the source is a point where another handler may run,   *)
(* so each action below is the synchronous stretch of code between two     *)
(* awaits.  Objects that the code shares by reference (the candidate array *)
(* of a run, which agentState.candidates aliases) live in a small heap     *)
(* indexed by the run that allocated them; index 0 is the initial object.  *)
(***************************************************************************)
EXTENDS Integers, Sequences, FiniteSets, TLC

\* ------------------------------------------------------------------------
\* Bounds of the model
\* ------------------------------------------------------------------------
\* number of FIND_DEALS requests the user triggers
MaxRuns == 2
\* number of ANALYZE_PAGE requests the user triggers
MaxAnalyze == 1

\* ------------------------------------------------------------------------
\* Program constants
\* ------------------------------------------------------------------------
\* popup.js:629  .slice(0, 10)
FallbackLimit == 10
\* popup.js:632  score_total: 0.5, in thousandths
FallbackScore == 500
\* popup.js:285  results.slice(0, 5)
DisplayLimit == 5

Runs == 1..MaxRuns
Refs == 0..MaxRuns

\* ------------------------------------------------------------------------
\* JSON / JavaScript values
\* ------------------------------------------------------------------------
JNull == [t |-> "null"]
JUndefined == [t |-> "undefined"]
JArr(s) == [t |-> "array", v |-> s]
JStr(s) == [t |-> "string", v |-> s]
\* a truthy value that is not iterable (an object literal, a number)
JObj == [t |-> "object"]

\* a normalized Listing; price is price.value in whole dollars
Listing(src, id, price) == [t |-> "listing", source |-> src, id |-> id, price |-> price]
\* one character of a string that was spread into an array
Chr(c) == [t |-> "char", c |-> c]

\* JavaScript truthiness of a value (the left operand of `x || []`)
Truthy(v) ==
    CASE v.t = "null" -> FALSE
      [] v.t = "undefined" -> FALSE
      [] v.t = "string" -> Len(v.v) > 0
      [] OTHER -> TRUE

\* `x || []`
OrEmptyArray(v) == IF Truthy(v) THEN v ELSE JArr(<<>>)

\* `...x` inside a call: arrays and strings are iterable, anything else throws
Iterable(v) == v.t \in {"array", "string"}

SpreadElements(v) ==
    IF v.t = "array" THEN v.v
    ELSE [i \in 1..Len(v.v) |-> Chr(v.v[i])]

Min(a, b) == IF a < b THEN a ELSE b

\* ------------------------------------------------------------------------
\* Inputs: what the collaborators can answer
\* ------------------------------------------------------------------------
\* an HTTP exchange: the fetch rejects, or resolves with a status and a body
NetError == [status |-> "neterr"]
Http(ok, body) == [status |-> "http", ok |-> ok, body |-> body]
\* a body that response.json() cannot parse
NotJson == [t |-> "notjson"]
\* a JSON object body with (or, when JUndefined, without) the named field
ListingsBody(v) == [t |-> "json_object", listings |-> v]
RankedBody(v) == [t |-> "json_object", ranked |-> v]

\* listing arrays the eBay search can answer with
EbayPair == << Listing("ebay", 1, 30), Listing("ebay", 2, 10) >>
EbayLong == [i \in 1..(FallbackLimit + 1) |-> Listing("ebay", i, FallbackLimit + 2 - i)]
EbayWithNull == << JNull, Listing("ebay", 1, 30) >>

EbayResponses ==
    { NetError,
      Http(FALSE, ListingsBody(JArr(EbayPair))),
      Http(TRUE, NotJson),
      Http(TRUE, JNull),
      Http(TRUE, ListingsBody(JUndefined)),
      Http(TRUE, ListingsBody(JObj)),
      Http(TRUE, ListingsBody(JStr(<<"a", "b">>))),
      Http(TRUE, ListingsBody(JArr(<<>>))),
      Http(TRUE, ListingsBody(JArr(EbayPair))),
      Http(TRUE, ListingsBody(JArr(EbayLong))),
      Http(TRUE, ListingsBody(JArr(EbayWithNull))) }

\* what chrome.tabs.sendMessage(SCRAPE_SEARCH_RESULTS) can settle with:
\* a rejection (no content script in the tab), or the content script's reply
NeweggPair == << Listing("newegg", 1, 20), Listing("newegg", 2, 10) >>
MsgReject == [status |-> "reject"]
MsgReply(r) == [status |-> "reply", response |-> r]
ScrapeReply(listings) == [t |-> "json_object", error |-> JUndefined, listings |-> JArr(listings)]
ErrorReply == [t |-> "json_object", error |-> JStr(<<"e">>), listings |-> JUndefined]

NeweggResponses ==
    { MsgReject,
      MsgReply(JUndefined),
      MsgReply(ErrorReply),
      MsgReply(ScrapeReply(<<>>)),
      MsgReply(ScrapeReply(NeweggPair)) }

\* ------------------------------------------------------------------------
\* fetchEbayCandidates / fetchNeweggCandidates / gatherCandidates
\* ------------------------------------------------------------------------
\* the value fetchEbayCandidates resolves with, given how POST /search/ebay went
FetchEbayReturn(resp) ==
    IF resp.status = "neterr" THEN JArr(<<>>)
    ELSE IF ~resp.ok THEN JArr(<<>>)
    ELSE IF resp.body.t = "notjson" THEN JArr(<<>>)
    ELSE IF resp.body.t = "null" THEN JArr(<<>>)
    ELSE OrEmptyArray(resp.body.listings)

\* reading response.error throws when the reply is undefined
ReplyThrows(reply) == reply.t = "undefined" \/ Truthy(reply.error)

\* the value fetchNeweggCandidates resolves with once the tab was removed
FetchNeweggReturn(reply) ==
    IF ReplyThrows(reply) THEN JArr(<<>>)
    ELSE OrEmptyArray(reply.listings)

\* mutant: the new listings are put in front of the ones gathered so far
GatherPushInFront(all, results) ==
    IF Iterable(results) THEN SpreadElements(results) \o all ELSE all

\* allCandidates.push(...results) inside gatherCandidates' try/catch
GatherPush(all, results) ==
    IF Iterable(results) THEN all \o SpreadElements(results) ELSE all

\* ------------------------------------------------------------------------
\* rankCandidates
\* ------------------------------------------------------------------------
\* a RankedResult; scores are in thousandths
RankedResult(listing, total, breakdown, bullets) ==
    [listing |-> listing, score_total |-> total,
     score_breakdown |-> breakdown, explanation_bullets |-> bullets]

\* `(a.price?.value || 0)`: a listing's price, 0 when it has none or it is 0
PriceKey(x) == IF x.t = "listing" /\ x.price # 0 THEN x.price ELSE 0

\* `a.price` throws a TypeError when a is null
ComparatorThrows(x) == x.t = "null"

\* Array.prototype.sort calls the comparator on every element as soon as the
\* array holds two (JSON arrays hold no undefined, which sort would skip)
SortThrows(arr) == Len(arr) >= 2 /\ \E i \in 1..Len(arr) : ComparatorThrows(arr[i])

\* mutant: the comparator is (b - a), the dearest comes first
RECURSIVE InsertByPriceDescending(_, _)
InsertByPriceDescending(x, sorted) ==
    IF sorted = <<>> THEN <<x>>
    ELSE IF PriceKey(x) > PriceKey(Head(sorted)) THEN <<x>> \o sorted
    ELSE <<Head(sorted)>> \o InsertByPriceDescending(x, Tail(sorted))

\* stable insertion of x behind every element whose key is not larger
RECURSIVE InsertByPrice(_, _)
InsertByPrice(x, sorted) ==
    IF sorted = <<>> THEN <<x>>
    ELSE IF PriceKey(x) < PriceKey(Head(sorted)) THEN <<x>> \o sorted
    ELSE <<Head(sorted)>> \o InsertByPrice(x, Tail(sorted))

\* candidates.sort((a, b) => key(a) - key(b)): ascending and stable
RECURSIVE SortByPrice(_)
SortByPrice(arr) ==
    IF arr = <<>> THEN <<>>
    ELSE InsertByPrice(arr[Len(arr)], SortByPrice(SubSeq(arr, 1, Len(arr) - 1)))

\* an element of explanation_bullets that is a bare string
BulletString(s) == [t |-> "string", v |-> s]

\* mutant: the fallback ranks the new listings only
FallbackRankingNewOnly(sorted) ==
    LET new == SelectSeq(sorted, LAMBDA c : c.t = "listing" /\ c.condition = "new")
    IN  [i \in 1..Min(FallbackLimit, Len(new)) |->
            RankedResult(new[i], FallbackScore, <<>>,
                         << BulletString("Ranking unavailable - sorted by price") >>)]

\* mutant: the slice keeps one result too few
FallbackRankingShort(sorted) ==
    [i \in 1..Min(FallbackLimit - 1, Len(sorted)) |->
        RankedResult(sorted[i], FallbackScore, <<>>,
                     << BulletString("Ranking unavailable - sorted by price") >>)]

\* .slice(0, 10).map(listing => ({...})) on the sorted array
FallbackRanking(sorted) ==
    [i \in 1..Min(FallbackLimit, Len(sorted)) |->
        RankedResult(sorted[i], FallbackScore, <<>>,
                     << BulletString("Ranking unavailable - sorted by price") >>)]

\* the ranking authority's answer for a candidate list: it keeps the listings
\* and scores them; the scoring itself is not part of the extension
ServerRanked(cands) ==
    LET keep == SelectSeq(cands, LAMBDA c : c.t = "listing")
    IN  [i \in 1..Len(keep) |->
            RankedResult(keep[i], 900 - 10 * i, <<>>, <<>>)]

RankResponses(cands) ==
    { NetError,
      Http(FALSE, RankedBody(JArr(ServerRanked(cands)))),
      Http(TRUE, NotJson),
      Http(TRUE, JNull),
      Http(TRUE, RankedBody(JUndefined)),
      Http(TRUE, RankedBody(JArr(ServerRanked(cands)))) }

\* the try block of rankCandidates ends in the catch
RankFails(resp) ==
    \/ resp.status = "neterr"
    \/ ~resp.ok
    \/ resp.body.t = "notjson"
    \/ resp.body.t = "null"

\* `data.ranked || []`
RankPrimaryReturn(resp) == OrEmptyArray(resp.body.ranked).v

\* ------------------------------------------------------------------------
\* State
\* ------------------------------------------------------------------------
VARIABLES
    \* popup (popup.js:22-24 and the DOM it writes)
    rankedResults,       \* let rankedResults
    displayed,           \* the result cards in resultsContainer
    errorVisible,        \* errorDisplay is not hidden
    findDealsDisabled,   \* findDealsBtn.disabled
    \* one FIND_DEALS request, from the popup's call to the popup's resumption
    pc,                  \* where request r is suspended
    abandoned,           \* a newer request was triggered while r was in flight
    arrays,              \* heap: allCandidates of request r (arrays[0]: initial [])
    ebayResp,            \* how POST /search/ebay went for r
    neweggResp,          \* how the Newegg scrape went for r
    tab,                 \* the background tab r opened
    rankRequested,       \* POST /rank was sent for r
    rankResp,            \* how POST /rank went for r
    rankedOut,           \* heap: the array rankCandidates returned to r
    result,              \* what sendResponse was called with for r
    responses,           \* responses on their way to the popup, oldest first
    \* service worker
    agentState,          \* const agentState
    analyzed,            \* ANALYZE_PAGE requests handled so far
    \* one FIND_DEALS request, listings and decision spec in full
    dPc,                 \* where handleFindDeals is suspended
    dSpec,               \* payload.decision_spec
    dCands,              \* allCandidates / candidates
    dForwarded,          \* decision_spec in the body of POST /rank
    dRankedBy,           \* which branch of rankCandidates returned
    dRanked,             \* the array rankCandidates returned
    dResult,             \* what sendResponse was called with
    \* schema.js called on a weights mapping
    wIn,                 \* the mapping the caller holds
    wPrev,               \* the argument of the last normalizeWeights call
    wCur,                \* what the last normalizeWeights call returned
    wPasses,             \* normalizeWeights calls made so far
    wValid,              \* what validateWeights(wCur) returned
    \* content script: GenericProductParser on one page
    pPage,               \* the document the content script runs in
    pContext,            \* what GenericProductParser.extract() returned
    \* content script: one parser call on one document
    sDoc,                \* the document the parser runs in
    sOut,                 \* what the parser call returned
    \* the onMessage listeners of the service worker and the content script
    mMsg,                \* the message each listener call was given
    mPc,                 \* where the handler of each message is
    mSent,                \* the arguments sendResponse was called with, per message
    \* service worker: one COMPARE_TOP3 request
    kPc,                 \* where handleCompareTop3 is suspended
    kResults,            \* payload.results
    kTabs,               \* the tabs chrome.tabs.create opened, in order (tabIds)
    kTimer,              \* the 2000 ms timer of the highlights is pending
    kHighlights,         \* the HIGHLIGHT_ELEMENTS messages sent, in order
    kResponse            \* what handleCompareTop3 returned or threw

\* the popup and the service worker under concurrent requests
agentVars == << rankedResults, displayed, errorVisible, findDealsDisabled,
                pc, abandoned, arrays, ebayResp, neweggResp, tab, rankRequested,
                rankResp, rankedOut, result, responses, agentState, analyzed >>

\* one FIND_DEALS request followed with full listings and decision specs
dealVars == << dPc, dSpec, dCands, dForwarded, dRankedBy, dRanked, dResult >>

\* the weights helpers of schema.js applied to one mapping
weightVars == << wIn, wPrev, wCur, wPasses, wValid >>

\* GenericProductParser.extract on one page
productVars == << pPage, pContext >>

\* the search-page and product-page parsers on one document
scrapeVars == << sDoc, sOut >>

\* the onMessage listeners on the messages delivered to them
messageVars == << mMsg, mPc, mSent >>

\* one COMPARE_TOP3 request
compareVars == << kPc, kResults, kTabs, kTimer, kHighlights, kResponse >>

\* what the actions on agentVars leave alone
offAgent == << dealVars, weightVars, productVars, scrapeVars, messageVars, compareVars >>

\* what the actions on dealVars leave alone
offDeal == << agentVars, weightVars, productVars, scrapeVars, messageVars, compareVars >>

\* what the actions on weightVars leave alone
offWeights == << agentVars, dealVars, productVars, scrapeVars, messageVars, compareVars >>

\* what the actions on productVars leave alone
offProduct == << agentVars, dealVars, weightVars, scrapeVars, messageVars, compareVars >>

\* what the actions on scrapeVars leave alone
offScrape == << agentVars, dealVars, weightVars, productVars, messageVars, compareVars >>

\* what the actions on messageVars leave alone
offMessages == << agentVars, dealVars, weightVars, productVars, scrapeVars, compareVars >>

\* what the actions on compareVars leave alone
offCompare == << agentVars, dealVars, weightVars, productVars, scrapeVars, messageVars >>

vars == << agentVars, dealVars, weightVars, productVars, scrapeVars, messageVars, compareVars >>

popupVars == << rankedResults, displayed, errorVisible, findDealsDisabled >>

None == [status |-> "none"]
NoResult == [kind |-> "none", ranked |-> <<>>, message |-> "", total_candidates |-> 0]
NoContext == [by |-> "none", id |-> 0]

\* the text typed into the query input when a search is triggered
Queries == { "", "rtx 4070" }

\* a request the popup still awaits the answer of
InFlight(r) == pc[r] \notin {"idle", "done"}

\* the popup and the service worker right after they were loaded
AgentInit ==
    /\ rankedResults = <<>>
    /\ displayed = <<>>
    /\ errorVisible = FALSE
    /\ findDealsDisabled = FALSE
    /\ pc = [r \in Runs |-> "idle"]
    /\ abandoned = [r \in Runs |-> FALSE]
    /\ arrays = [r \in Refs |-> <<>>]
    /\ ebayResp = [r \in Runs |-> None]
    /\ neweggResp = [r \in Runs |-> None]
    /\ tab = [r \in Runs |-> "none"]
    /\ rankRequested = [r \in Runs |-> FALSE]
    /\ rankResp = [r \in Runs |-> None]
    /\ rankedOut = [r \in Refs |-> <<>>]
    /\ result = [r \in Runs |-> NoResult]
    /\ responses = <<>>
    /\ agentState = [lastRun |-> 0, candidates |-> 0, ranked |-> 0,
                     context |-> NoContext, decisionSpec |-> 0]
    /\ analyzed = 0

NoSpec == [t |-> "undefined"]

\* no FIND_DEALS message was delivered yet
DealIdle ==
    /\ dPc = "idle"
    /\ dSpec = NoSpec
    /\ dCands = <<>>
    /\ dForwarded = NoSpec
    /\ dRankedBy = "none"
    /\ dRanked = <<>>
    /\ dResult = NoResult

\* no weights mapping was handed to schema.js yet
WeightsIdle ==
    /\ wIn = NoSpec
    /\ wPrev = NoSpec
    /\ wCur = NoSpec
    /\ wPasses = 0
    /\ wValid = "none"

\* the content script has no page yet
ProductIdle ==
    /\ pPage = NoSpec
    /\ pContext = NoSpec

\* the search-page and product-page parsers on one document: nothing has happened yet
ScrapeIdle ==
    /\ sDoc = NoSpec
    /\ sOut = NoSpec

\* the most messages delivered to the listeners
MaxMessages == 2
Messages == 1..MaxMessages

\* no message was delivered to a listener yet
MessagesIdle ==
    /\ mMsg = [m \in Messages |-> NoSpec]
    /\ mPc = [m \in Messages |-> "none"]
    /\ mSent = [m \in Messages |-> << >>]

\* no COMPARE_TOP3 message was delivered yet
CompareIdle ==
    /\ kPc = "idle"
    /\ kResults = NoSpec
    /\ kTabs = << >>
    /\ kTimer = FALSE
    /\ kHighlights = << >>
    /\ kResponse = NoSpec

Init == AgentInit /\ DealIdle /\ WeightsIdle /\ ProductIdle /\ ScrapeIdle /\ MessagesIdle /\ CompareIdle

\* ------------------------------------------------------------------------
\* Popup: handleFindDeals
\* ------------------------------------------------------------------------
\* The button's click listener cannot fire while the button is disabled; the
\* query input's Enter listener calls handleFindDeals regardless.
CanTrigger(via) == via = "enter" \/ ~findDealsDisabled

\* an empty query: showError and return, nothing is sent
TriggerEmptyQuery(via) ==
    /\ CanTrigger(via)
    /\ \E r \in Runs : pc[r] = "idle"
    /\ errorVisible' = TRUE
    /\ UNCHANGED << rankedResults, displayed, findDealsDisabled,
                    pc, abandoned, arrays, ebayResp, neweggResp, tab,
                    rankRequested, rankResp, rankedOut, result, responses, agentState, analyzed >>
    /\ UNCHANGED offAgent

\* up to the await of chrome.runtime.sendMessage({ type: 'FIND_DEALS', ... });
\* request r carries the decision_spec and context objects built here
Trigger(r, q, via) ==
    /\ q # ""
    /\ CanTrigger(via)
    /\ pc[r] = "idle"
    /\ \A o \in Runs : o < r => pc[o] # "idle"
    /\ errorVisible' = FALSE
    /\ findDealsDisabled' = TRUE
    /\ abandoned' = [o \in Runs |-> abandoned[o] \/ InFlight(o)]
    /\ pc' = [pc EXCEPT ![r] = "sent"]
    /\ UNCHANGED << rankedResults, displayed, arrays, ebayResp,
                    neweggResp, tab, rankRequested, rankResp, rankedOut, result, responses, agentState,
                    analyzed >>
    /\ UNCHANGED offAgent

\* results.slice(0, 5) rendered as cards; no card for an empty list
DisplayResults(results) == SubSeq(results, 1, Min(DisplayLimit, Len(results)))

\* the popup resumes with the response of request r
PopupReceive(r) ==
    /\ pc[r] = "responded"
    /\ responses # <<>> /\ Head(responses) = r
    /\ responses' = Tail(responses)
    /\ pc' = [pc EXCEPT ![r] = "done"]
    /\ IF result[r].kind = "error"
       THEN /\ errorVisible' = TRUE
            /\ UNCHANGED << rankedResults, displayed >>
       ELSE /\ rankedResults' = result[r].ranked
            /\ displayed' = DisplayResults(result[r].ranked)
            /\ UNCHANGED errorVisible
    /\ findDealsDisabled' = FALSE
    /\ UNCHANGED << abandoned, arrays, ebayResp, neweggResp, tab, rankRequested, rankResp,
                    rankedOut, result, agentState, analyzed >>
    /\ UNCHANGED offAgent

\* ------------------------------------------------------------------------
\* Service worker: handleFindDeals and what it awaits
\* ------------------------------------------------------------------------
\* mutant: the early return for an empty candidate list is never taken
NoCandidatesIgnored(cands) == FALSE

\* `candidates.length === 0`
NoCandidates(cands) == Len(cands) = 0

\* the object handleFindDeals returns; a property it does not set reads ""
\* (message) or 0 (total_candidates) here
OkResult(ranked, msg, total) ==
    [kind |-> "ok", ranked |-> ranked, message |-> msg, total_candidates |-> total]
\* sendResponse({ error: error.message })
ErrorResult == [kind |-> "error", ranked |-> <<>>, message |-> "", total_candidates |-> 0]

\* the FIND_DEALS message reaches the listener: handleFindDeals runs up to
\* the await of fetch(/search/ebay) inside fetchEbayCandidates
BgStart(r) ==
    /\ pc[r] = "sent"
    /\ \A o \in Runs : o < r => pc[o] # "sent"
    /\ agentState' = [agentState EXCEPT !.decisionSpec = r,
                                        !.context = [by |-> "run", id |-> r],
                                        !.lastRun = r]
    /\ pc' = [pc EXCEPT ![r] = "ebay"]
    /\ UNCHANGED << popupVars, abandoned, arrays, ebayResp, neweggResp,
                    tab, rankRequested, rankResp, rankedOut, result, responses, analyzed >>
    /\ UNCHANGED offAgent

\* POST /search/ebay settles; gatherCandidates pushes and goes on to
\* fetchNeweggCandidates, up to the await of chrome.tabs.create
EbayReply(r, resp) ==
    /\ pc[r] = "ebay"
    /\ ebayResp' = [ebayResp EXCEPT ![r] = resp]
    /\ arrays' = [arrays EXCEPT ![r] = GatherPush(<<>>, FetchEbayReturn(resp))]
    /\ pc' = [pc EXCEPT ![r] = "ng_create"]
    /\ UNCHANGED << popupVars, abandoned, neweggResp, tab, rankRequested, rankResp,
                    rankedOut, result, responses, agentState, analyzed >>
    /\ UNCHANGED offAgent

\* POST /search/ebay never settles: nothing resumes the request
EbayHang(r) ==
    /\ pc[r] = "ebay"
    /\ pc' = [pc EXCEPT ![r] = "ebay_hung"]
    /\ UNCHANGED << popupVars, abandoned, arrays, ebayResp, neweggResp,
                    tab, rankRequested, rankResp, rankedOut, result, responses, agentState, analyzed >>
    /\ UNCHANGED offAgent

\* chrome.tabs.create settles: on success up to the 3000 ms timer, on a
\* rejection fetchNeweggCandidates returns [] and gatherCandidates returns
NeweggTabCreate(r, ok) ==
    /\ pc[r] = "ng_create"
    /\ IF ok
       THEN /\ tab' = [tab EXCEPT ![r] = "open"]
            /\ pc' = [pc EXCEPT ![r] = "ng_wait"]
            /\ UNCHANGED neweggResp
       ELSE /\ neweggResp' = [neweggResp EXCEPT ![r] = [status |-> "nocreate"]]
            /\ pc' = [pc EXCEPT ![r] = "gathered"]
            /\ UNCHANGED tab
    /\ UNCHANGED << popupVars, abandoned, arrays, ebayResp, rankRequested, rankResp,
                    rankedOut, result, responses, agentState, analyzed >>
    /\ UNCHANGED offAgent

\* the 3000 ms timer fires: up to the await of chrome.tabs.sendMessage
NeweggTimer(r) ==
    /\ pc[r] = "ng_wait"
    /\ pc' = [pc EXCEPT ![r] = "ng_msg"]
    /\ UNCHANGED << popupVars, abandoned, arrays, ebayResp, neweggResp,
                    tab, rankRequested, rankResp, rankedOut, result, responses, agentState, analyzed >>
    /\ UNCHANGED offAgent

\* chrome.tabs.sendMessage settles: a rejection goes to the catch (return []),
\* a reply goes on to the await of chrome.tabs.remove
NeweggReply(r, resp) ==
    /\ pc[r] = "ng_msg"
    /\ neweggResp' = [neweggResp EXCEPT ![r] = resp]
    /\ pc' = [pc EXCEPT ![r] = IF resp.status = "reject" THEN "gathered" ELSE "ng_close"]
    /\ UNCHANGED << popupVars, abandoned, arrays, ebayResp, tab, rankRequested, rankResp,
                    rankedOut, result, responses, agentState, analyzed >>
    /\ UNCHANGED offAgent

\* the content script never answers: nothing resumes the request
NeweggHang(r) ==
    /\ pc[r] = "ng_msg"
    /\ pc' = [pc EXCEPT ![r] = "ng_hung"]
    /\ UNCHANGED << popupVars, abandoned, arrays, ebayResp, neweggResp,
                    tab, rankRequested, rankResp, rankedOut, result, responses, agentState, analyzed >>
    /\ UNCHANGED offAgent

\* chrome.tabs.remove settles; fetchNeweggCandidates returns, gatherCandidates
\* pushes and returns
NeweggTabRemove(r, ok) ==
    /\ pc[r] = "ng_close"
    /\ LET got == IF ok THEN FetchNeweggReturn(neweggResp[r].response) ELSE JArr(<<>>)
       IN  arrays' = [arrays EXCEPT ![r] = GatherPush(arrays[r], got)]
    /\ IF ok
       THEN /\ tab' = [tab EXCEPT ![r] = "closed"]
            /\ UNCHANGED neweggResp
       ELSE /\ neweggResp' = [neweggResp EXCEPT ![r] = [status |-> "noremove"]]
            /\ UNCHANGED tab
    /\ pc' = [pc EXCEPT ![r] = "gathered"]
    /\ UNCHANGED << popupVars, abandoned, ebayResp, rankRequested, rankResp, rankedOut,
                    result, responses, agentState, analyzed >>
    /\ UNCHANGED offAgent

\* handleFindDeals resumes with the candidates gatherCandidates resolved
\* with: up to the early return, or to the await of fetch(/rank) inside
\* rankCandidates.  The responses were locals of functions that have returned.
AfterGather(r) ==
    /\ pc[r] = "gathered"
    /\ agentState' = [agentState EXCEPT !.candidates = r]
    /\ ebayResp' = [ebayResp EXCEPT ![r] = None]
    /\ neweggResp' = [neweggResp EXCEPT ![r] = None]
    /\ IF NoCandidates(arrays[r])
       THEN /\ result' = [result EXCEPT ![r] = OkResult(<<>>, "No candidates found", 0)]
            /\ responses' = Append(responses, r)
            /\ pc' = [pc EXCEPT ![r] = "responded"]
            /\ UNCHANGED rankRequested
       ELSE /\ pc' = [pc EXCEPT ![r] = "rank"]
            /\ rankRequested' = [rankRequested EXCEPT ![r] = TRUE]
            /\ UNCHANGED << result, responses >>
    /\ UNCHANGED << popupVars, abandoned, arrays, tab, rankResp, rankedOut, analyzed >>
    /\ UNCHANGED offAgent

\* POST /rank settles and rankCandidates returns data.ranked || [], or its
\* catch block sorts the candidates in place and returns the fallback, or the
\* comparator throws out of the catch block
RankReply(r, resp) ==
    /\ pc[r] = "rank"
    /\ rankResp' = [rankResp EXCEPT ![r] = resp]
    /\ IF ~RankFails(resp)
       THEN /\ rankedOut' = [rankedOut EXCEPT ![r] = RankPrimaryReturn(resp)]
            /\ pc' = [pc EXCEPT ![r] = "ranked"]
            /\ UNCHANGED arrays
       ELSE IF SortThrows(arrays[r])
       THEN /\ pc' = [pc EXCEPT ![r] = "rank_threw"]
            /\ UNCHANGED << arrays, rankedOut >>
       ELSE /\ arrays' = [arrays EXCEPT ![r] = SortByPrice(arrays[r])]
            /\ rankedOut' = [rankedOut EXCEPT ![r] = FallbackRanking(SortByPrice(arrays[r]))]
            /\ pc' = [pc EXCEPT ![r] = "ranked"]
    /\ UNCHANGED << popupVars, abandoned, ebayResp, neweggResp, tab, rankRequested,
                    result, responses, agentState, analyzed >>
    /\ UNCHANGED offAgent

\* handleFindDeals resumes with the ranking, stores it and returns; the
\* listener calls sendResponse with the returned object
AfterRank(r) ==
    /\ pc[r] = "ranked"
    /\ agentState' = [agentState EXCEPT !.ranked = r]
    /\ result' = [result EXCEPT ![r] = OkResult(rankedOut[r], "", Len(arrays[r]))]
    /\ responses' = Append(responses, r)
    /\ rankResp' = [rankResp EXCEPT ![r] = None]
    /\ pc' = [pc EXCEPT ![r] = "responded"]
    /\ UNCHANGED << popupVars, abandoned, arrays, ebayResp, neweggResp, tab,
                    rankRequested, rankedOut, analyzed >>
    /\ UNCHANGED offAgent

\* handleFindDeals resumes with the rejection, rethrows, and the listener's
\* catch calls sendResponse({ error })
AfterRankThrew(r) ==
    /\ pc[r] = "rank_threw"
    /\ result' = [result EXCEPT ![r] = ErrorResult]
    /\ responses' = Append(responses, r)
    /\ rankResp' = [rankResp EXCEPT ![r] = None]
    /\ pc' = [pc EXCEPT ![r] = "responded"]
    /\ UNCHANGED << popupVars, abandoned, arrays, ebayResp, neweggResp, tab,
                    rankRequested, rankedOut, agentState, analyzed >>
    /\ UNCHANGED offAgent

\* ------------------------------------------------------------------------
\* Service worker: handleAnalyzePage
\* ------------------------------------------------------------------------
\* the content script answered EXTRACT_PAGE_CONTEXT with a context: the
\* handler stores it and returns it (the awaits before touch no state; the
\* failing paths store nothing)
AnalyzePage ==
    /\ analyzed < MaxAnalyze
    /\ analyzed' = analyzed + 1
    /\ agentState' = [agentState EXCEPT !.context = [by |-> "analyze", id |-> analyzed + 1]]
    /\ UNCHANGED << popupVars, pc, abandoned, arrays, ebayResp, neweggResp, tab,
                    rankRequested, rankResp, rankedOut, result, responses >>
    /\ UNCHANGED offAgent

\* ------------------------------------------------------------------------
\* Specification
\* ------------------------------------------------------------------------
Triggers == { "click", "enter" }

\* what the event loop and the collaborators do for request r
Resume(r) ==
    \/ BgStart(r)
    \/ \E resp \in EbayResponses : EbayReply(r, resp)
    \/ \E ok \in BOOLEAN : NeweggTabCreate(r, ok)
    \/ NeweggTimer(r)
    \/ \E resp \in NeweggResponses : NeweggReply(r, resp)
    \/ \E ok \in BOOLEAN : NeweggTabRemove(r, ok)
    \/ AfterGather(r)
    \/ \E resp \in RankResponses(arrays[r]) : RankReply(r, resp)
    \/ AfterRank(r)
    \/ AfterRankThrew(r)
    \/ PopupReceive(r)

Next ==
    \/ \E via \in Triggers : TriggerEmptyQuery(via)
    \/ \E r \in Runs, q \in Queries, via \in Triggers : Trigger(r, q, via)
    \/ \E r \in Runs : Resume(r)
    \/ \E r \in Runs : EbayHang(r)
    \/ \E r \in Runs : NeweggHang(r)
    \/ AnalyzePage

Spec == Init /\ [][Next]_vars

\* ------------------------------------------------------------------------
\* Properties
\* ------------------------------------------------------------------------
\* the listings a source delivered: those of a 2xx answer whose body is a
\* JSON object with an array under `listings`, none when the source failed
EbayDelivered(resp) ==
    IF resp.status = "http" /\ resp.ok /\ resp.body.t = "json_object"
       /\ resp.body.listings.t = "array"
    THEN resp.body.listings.v
    ELSE <<>>

\* the listings the Newegg scrape delivered: those of a reply without an
\* error, none when the tab could not be opened, asked or closed
NeweggDelivered(resp) ==
    IF resp.status = "reply" /\ resp.response.t = "json_object"
       /\ ~Truthy(resp.response.error) /\ resp.response.listings.t = "array"
    THEN resp.response.listings.v
    ELSE <<>>

\* POST /search/ebay failed: transport error, non-2xx, or an unusable body
EbayFailed(resp) ==
    \/ resp.status = "neterr"
    \/ resp.status = "http" /\ (~resp.ok \/ resp.body.t \in {"notjson", "null"})

\* the answer either failed or is a JSON object whose `listings` is absent
\* or an array
EbayAnswerTyped(resp) ==
    \/ EbayFailed(resp)
    \/ resp.status = "http" /\ resp.body.listings.t \in {"undefined", "array"}

\* C1: when gatherCandidates has returned, its result is the listings eBay
\* delivered followed by the listings Newegg delivered, each in the order
\* delivered, a failed source adding none (sources answer with a listing
\* array or fail); the call always returns, it never throws.
C1_GatherIsConcatenation ==
    \A r \in Runs :
        (pc[r] = "gathered" /\ EbayAnswerTyped(ebayResp[r])) =>
            arrays[r] = EbayDelivered(ebayResp[r]) \o NeweggDelivered(neweggResp[r])

\* eBay delivered two listings, the Newegg scrape failed, gather returned
C1_Witness ==
    \E r \in Runs :
        /\ pc[r] = "gathered"
        /\ EbayDelivered(ebayResp[r]) = EbayPair
        /\ neweggResp[r].status = "reject"
        /\ arrays[r] = EbayPair

\* the call to the ranking authority failed: unreachable, non-2xx, or a body
\* that cannot be parsed
RankCallFailed(resp) ==
    \/ resp.status = "neterr"
    \/ resp.status = "http" /\ (~resp.ok \/ resp.body.t = "notjson")

AllListings(arr) == \A i \in 1..Len(arr) : arr[i].t = "listing"

\* how often x occurs in arr
Occurrences(x, arr) == Cardinality({ i \in 1..Len(arr) : arr[i] = x })

\* how many elements of arr are listings priced below p
CheaperThan(p, arr) == Cardinality({ i \in 1..Len(arr) : arr[i].price < p })

ListingsOf(ranked) == [i \in 1..Len(ranked) |-> ranked[i].listing]

Prices(arr) == { arr[i].price : i \in 1..Len(arr) }

\* C2: when the call to the ranking authority failed, rankCandidates returns
\* min(10, count) results over a list of count Listings: each result is one
\* of the candidates, they are in ascending order of price, no candidate
\* left out is cheaper than one returned, and each has score_total 0.5 and
\* an empty score_breakdown.
C2_FallbackLaw ==
    \A r \in Runs :
        (pc[r] = "ranked" /\ RankCallFailed(rankResp[r]) /\ AllListings(arrays[r])) =>
            LET out == rankedOut[r]
                got == ListingsOf(out)
                cands == arrays[r]
            IN  /\ Len(out) = Min(10, Len(cands))
                /\ \A i \in 1..Len(out) :
                      /\ out[i].score_total = 500
                      /\ DOMAIN out[i].score_breakdown = {}
                      /\ Occurrences(got[i], got) <= Occurrences(got[i], cands)
                /\ \A i, j \in 1..Len(out) : i < j => got[i].price <= got[j].price
                /\ \A p \in Prices(cands) :
                      CheaperThan(p, got) = Min(10, CheaperThan(p, cands))

\* the fallback ranked a list of more than ten listings and kept ten
C2_Witness ==
    \E r \in Runs :
        /\ pc[r] = "ranked"
        /\ RankCallFailed(rankResp[r])
        /\ AllListings(arrays[r])
        /\ Len(arrays[r]) > 10
        /\ Len(rankedOut[r]) = 10

\* C3: whenever the ranking authority is unreachable, answers non-2xx or
\* sends an unparseable body, rankCandidates resolves with the fallback
\* ordering, and no FIND_DEALS request that gathered candidates is answered
\* with an error.
C3_RankingNeverThrows ==
    \A r \in Runs :
        /\ RankCallFailed(rankResp[r]) =>
              /\ pc[r] = "ranked"
              /\ Len(rankedOut[r]) = Min(10, Len(arrays[r]))
        /\ rankRequested[r] => result[r].kind # "error"

\* POST /search/ebay returned nothing: it failed, or its body has no listings
EbayNothing(resp) ==
    \/ EbayFailed(resp)
    \/ resp.status = "http" /\ resp.body.listings.t = "undefined"
    \/ resp.status = "http" /\ resp.body.listings = JArr(<<>>)

\* the Newegg scrape returned nothing: the tab could not be opened, asked or
\* closed, or the reply is missing, an error, or an empty list
NeweggNothing(resp) ==
    \/ resp.status \in {"nocreate", "reject", "noremove"}
    \/ resp.status = "reply" /\ resp.response.t = "undefined"
    \/ resp.status = "reply" /\ resp.response.t = "json_object"
         /\ (Truthy(resp.response.error) \/ resp.response.listings = JArr(<<>>))

\* C4: when every source fails or returns nothing, gatherCandidates returns
\* an empty list; and a request whose gathered list is empty is answered
\* with ranked = [] and the message 'No candidates found', not with an
\* error, and POST /rank was never sent for it.
C4_NoCandidatesIsNormal ==
    \A r \in Runs :
        /\ (pc[r] = "gathered" /\ EbayNothing(ebayResp[r]) /\ NeweggNothing(neweggResp[r]))
              => arrays[r] = <<>>
        /\ (pc[r] \in {"rank", "ranked", "rank_threw"}) => arrays[r] # <<>>
        /\ (pc[r] \in {"responded", "done"} /\ arrays[r] = <<>>) =>
              /\ result[r].kind = "ok"
              /\ result[r].ranked = <<>>
              /\ result[r].message = "No candidates found"
              /\ ~rankRequested[r]

\* no source delivered a listing and the request was answered
C4_Witness ==
    \E r \in Runs :
        /\ pc[r] = "responded"
        /\ arrays[r] = <<>>
        /\ result[r].kind = "ok"
        /\ result[r].message = "No candidates found"
        /\ ~rankRequested[r]

\* the fetch of a source is awaited
EbayPending(r) == pc[r] \in {"ebay", "ebay_hung"}
NeweggPending(r) == pc[r] \in {"ng_create", "ng_wait", "ng_msg", "ng_hung", "ng_close"}
\* fetchNeweggCandidates has been called
NeweggStarted(r) == NeweggPending(r) \/ neweggResp[r] # None
\* gatherCandidates has resolved
GatherReturned(r) == pc[r] \in {"gathered", "rank", "ranked", "rank_threw", "responded", "done"}

\* C5: the per-source fetches are in flight concurrently: while the eBay
\* fetch is unsettled the Newegg fetch has been started too; and
\* gatherCandidates has returned only when no source is pending.
C5_SourcesConcurrent ==
    \A r \in Runs :
        /\ EbayPending(r) => NeweggStarted(r)
        /\ GatherReturned(r) => ~EbayPending(r) /\ ~NeweggPending(r)

\* the fetch of a source will never settle
SourceHung(r) == pc[r] \in {"ebay_hung", "ng_hung"}

\* C6: every source fetch is bounded by a timeout: a request whose source
\* never answers can still be resumed (by the timeout), so that
\* gatherCandidates returns without that source's listings.
C6_HungSourceTimesOut ==
    \A r \in Runs : SourceHung(r) => ENABLED Resume(r)

\* the request triggered last
LastTriggered == CHOOSE r \in Runs : pc[r] # "idle" /\ \A o \in Runs : pc[o] # "idle" => o <= r

\* C7: when a request was triggered while an earlier one was in flight and
\* all have completed, the popup's rankedResults and displayed cards and the
\* service worker's agentState are those of the request triggered last.
C7_LatestRequestWins ==
    ( /\ \E r \in Runs : abandoned[r]
      /\ \A r \in Runs : pc[r] \in {"idle", "done"}
      /\ \A r \in Runs : pc[r] = "done" => result[r].kind = "ok" ) =>
        /\ rankedResults = result[LastTriggered].ranked
        /\ displayed = SubSeq(rankedResults, 1, Min(5, Len(rankedResults)))
        /\ agentState.decisionSpec = LastTriggered
        /\ arrays[agentState.candidates] = arrays[LastTriggered]

\* C8: in every state the fields decisionSpec, context, candidates and ranked
\* of agentState belong to one and the same completed request (or all hold
\* their initial values).
C8_SnapshotOfOneRun ==
    LET d == agentState.decisionSpec
    IN  /\ agentState.candidates = d
        /\ agentState.ranked = d
        /\ agentState.context = IF d = 0 THEN NoContext ELSE [by |-> "run", id |-> d]
        /\ d # 0 => pc[d] \in {"responded", "done"}

\* C9: rankCandidates leaves the candidate list it was passed as it was: the
\* step in which POST /rank settles and rankCandidates returns changes
\* neither the elements nor their order.
C9_RankKeepsCandidates ==
    [][\A r \in Runs : pc[r] = "rank" => arrays'[r] = arrays[r]]_vars

\* the body of a 2xx answer is unusable: not JSON, JSON null, without a
\* listings field, or with a listings field that is not an array of Listings
EbayMalformed(resp) ==
    /\ resp.status = "http"
    /\ \/ ~resp.ok
       \/ resp.body.t \in {"notjson", "null"}
       \/ resp.body.listings.t # "array"
       \/ ~AllListings(resp.body.listings.v)

\* C10: a non-2xx or malformed answer of POST /search/ebay adds no listing
\* to what gatherCandidates returns: the result is what Newegg delivered.
C10_MalformedEbayAddsNothing ==
    \A r \in Runs :
        (pc[r] = "gathered" /\ EbayMalformed(ebayResp[r])) =>
            arrays[r] = NeweggDelivered(neweggResp[r])

\* ========================================================================
\* shared/schema.js: weights
\* ========================================================================
\* Numbers are decimal fixed point, Scale steps to the unit (FallbackScore is
\* 0.5); a division rounds its quotient to the nearest step, as the double
\* division of the source rounds it to the nearest double.
Scale == 1000

\* the five criteria of a DecisionSpec's weights
Criteria == { "price", "delivery", "reliability", "returns", "spec_match" }

\* Math.abs
Abs(x) == IF x < 0 THEN 0 - x ELSE x

\* the quotient n / d rounded to the nearest step (d # 0)
RoundDiv(n, d) ==
    LET num == IF d < 0 THEN 0 - n ELSE n
        den == Abs(d)
    IN  IF num >= 0 THEN (2 * num + den) \div (2 * den)
        ELSE 0 - ((2 * (0 - num) + den) \div (2 * den))

\* Object.values(weights).reduce((a, b) => a + b, 0)
RECURSIVE SumOver(_, _)
SumOver(w, keys) ==
    IF keys = {} THEN 0
    ELSE LET k == CHOOSE x \in keys : TRUE
         IN  w[k] + SumOver(w, keys \ {k})

WeightSum(w) == SumOver(w, DOMAIN w)

\* validateWeights: Math.abs(sum - 1.0) < 0.01
ValidateWeights(w) == Abs(WeightSum(w) - Scale) < Scale \div 100

\* mutant: every value is divided by the number of keys instead of the sum
NormalizeWeightsByCount(w) ==
    IF WeightSum(w) = 0 THEN w
    ELSE [k \in DOMAIN w |-> RoundDiv(w[k], Cardinality(DOMAIN w))]

\* normalizeWeights: the input itself when the sum is 0, else value / sum
NormalizeWeights(w) ==
    IF WeightSum(w) = 0 THEN w
    ELSE [k \in DOMAIN w |-> RoundDiv(w[k] * Scale, WeightSum(w))]

\* ========================================================================
\* One FIND_DEALS request with full listings and decision specs
\* ========================================================================
\* schema.js:78  budget_max: 500
BudgetDefault == 500
\* newegg_search_parser.js:32  listings.slice(0, 20)
ScrapeLimit == 20

\* popup.js:135-141, the weights buildDecisionSpec always sends
PopupWeights ==
    [price |-> 250, delivery |-> 200, reliability |-> 250,
     returns |-> 150, spec_match |-> 150]

\* buildDecisionSpec: the query and the ticked condition boxes are the inputs
BuildDecisionSpec(q, conds) ==
    [t |-> "object", query |-> q, budget_max |-> BudgetDefault,
     condition_allowed |-> conds,
     delivery_priority |-> "med", risk_tolerance |-> "med",
     required_keywords |-> {}, banned_keywords |-> {},
     brand_whitelist |-> {}, brand_blacklist |-> {},
     weights |-> PopupWeights]

PopupSpecs ==
    { BuildDecisionSpec("rtx 4070", conds) :
        conds \in { {"new", "refurb"}, {"new", "refurb", "used"}, {} } }

\* decision specs of FIND_DEALS messages that another sender builds: the
\* listener takes payload.decision_spec from any extension context
ZeroWeights == [k \in Criteria |-> 0]
PriceOnlyWeights == [k \in Criteria |-> IF k = "price" THEN Scale ELSE 0]
HeavyWeights == [k \in Criteria |-> Scale]

OtherSpecs ==
    LET base == BuildDecisionSpec("rtx 4070", {"new", "refurb"})
    IN  { [base EXCEPT !.weights = ZeroWeights],
          [base EXCEPT !.weights = PriceOnlyWeights,
                       !.required_keywords = {"laptop"}],
          [base EXCEPT !.weights = HeavyWeights,
                       !.brand_blacklist = {"acme"}] }

DecisionSpecs == PopupSpecs \cup OtherSpecs

\* a normalized Listing with the fields the exclusion rules read; the title
\* is its sequence of words, << >> for '' and for null
Offer(src, id, price, title, url, cond, brand) ==
    [t |-> "listing", source |-> src, id |-> id, price |-> price,
     title |-> title, url |-> url, condition |-> cond, brand |-> brand]

EbayOffers ==
    << Offer("ebay", 1, 30, <<"rtx", "card">>, "e/1", "new", "asus"),
       Offer("ebay", 2, 10, <<"wireless", "mouse">>, "e/2", "used", "acme"),
       Offer("ebay", 3, 10, <<"rtx", "laptop">>, "e/3", "new", "asus") >>

EbayUntitled ==
    << Offer("ebay", 4, 20, << >>, "e/4", "new", "asus"),
       Offer("ebay", 5, 25, <<"rtx">>, "", "new", "asus") >>

OfferWithNull == << JNull, Offer("ebay", 1, 30, <<"rtx", "card">>, "e/1", "new", "asus") >>

DealEbayResponses ==
    { NetError,
      Http(TRUE, ListingsBody(JArr(EbayOffers))),
      Http(TRUE, ListingsBody(JArr(EbayUntitled))),
      Http(TRUE, ListingsBody(JStr(<<"a", "b">>))),
      Http(TRUE, ListingsBody(JArr(OfferWithNull))) }

\* ------------------------------------------------------------------------
\* Content script: SCRAPE_SEARCH_RESULTS on the Newegg tab
\* ------------------------------------------------------------------------
\* one .item-cell of the page: what querySelector('.item-title, a.item-title,
\* a[title]') finds in it ("none", an "anchor", or an element that is no
\* anchor and so has no href), its text, its title attribute, its href
Item(link, text, titleAttr, href, price, brand) ==
    [link |-> link, text |-> text, titleAttr |-> titleAttr, href |-> href,
     price |-> price, brand |-> brand]

\* listing.url.match(...) throws when titleLink.href is undefined
ParseItemThrows(el) == el.link = "other"

\* NeweggSearchParser.parseItem
ParseItem(el, index) ==
    LET title == IF el.link = "none" THEN << >>
                 ELSE IF el.text # << >> THEN el.text ELSE el.titleAttr
        url == IF el.link = "none" THEN "" ELSE el.href
        brand == IF el.brand # "" THEN el.brand
                 ELSE IF title # << >> THEN title[1] ELSE ""
    IN  Offer("newegg", index, el.price, title, url, "new", brand)

\* NeweggSearchParser.scrape: an item that throws or lacks a title or a url
\* is left out, then .slice(0, 20)
NeweggScrape(items) ==
    LET ok == { i \in 1..Len(items) :
                    /\ ~ParseItemThrows(items[i])
                    /\ ParseItem(items[i], i).title # << >>
                    /\ ParseItem(items[i], i).url # "" }
        RECURSIVE Collect(_)
        Collect(i) == IF i > Len(items) THEN << >>
                      ELSE (IF i \in ok THEN << ParseItem(items[i], i) >> ELSE << >>)
                           \o Collect(i + 1)
        kept == Collect(1)
    IN  SubSeq(kept, 1, Min(ScrapeLimit, Len(kept)))

\* GenericSearchParser.parseListingElement: the link is an anchor or absent;
\* the page is Newegg's, so detectSource() is 'newegg'
ParseListingElement(el, index) ==
    LET found == el.link = "anchor"
    IN  Offer("newegg", index, el.price,
              IF found THEN el.text ELSE << >>,
              IF found THEN el.href ELSE "",
              "unknown", "")

\* GenericSearchParser.scrapeResults: .slice(0, 20).map(...).filter(title && url)
GenericScrape(items) ==
    LET first == SubSeq(items, 1, Min(ScrapeLimit, Len(items)))
        parsed == [i \in 1..Len(first) |-> ParseListingElement(first[i], i)]
    IN  SelectSeq(parsed, LAMBDA l : l.title # << >> /\ l.url # "")

\* scrapeSearchResults('newegg') as handleMessage resolves it; the generic
\* scraper runs when window.NeweggSearchParser is not there
ScrapeSearchResults(hasNeweggParser, items) ==
    IF hasNeweggParser THEN ScrapeReply(NeweggScrape(items))
    ELSE ScrapeReply(GenericScrape(items))

NeweggPage ==
    << Item("anchor", <<"rtx", "4070">>, << >>, "n/1", 20, "msi"),
       Item("none", << >>, << >>, "", 15, ""),
       Item("anchor", << >>, << >>, "n/3", 12, ""),
       Item("other", <<"rtx", "oc">>, << >>, "", 25, ""),
       Item("anchor", << >>, <<"gaming", "mouse">>, "n/5", 10, "") >>

\* how fetchNeweggCandidates' scrape can end: the tab or the message fails,
\* or the content script answers for the page it finds
DealNeweggOutcomes ==
    { MsgReject,
      MsgReply(JUndefined),
      MsgReply(ScrapeSearchResults(TRUE, << >>)),
      MsgReply(ScrapeSearchResults(TRUE, NeweggPage)),
      MsgReply(ScrapeSearchResults(FALSE, NeweggPage)) }

\* ------------------------------------------------------------------------
\* The ranking authority behind POST /rank
\* ------------------------------------------------------------------------
TitleWords(c) == { c.title[i] : i \in 1..Len(c.title) }

\* the exclusion rules of a decision spec
ViolatesExclusion(spec, c) ==
    \/ c.condition \notin spec.condition_allowed
    \/ \E k \in spec.required_keywords : k \notin TitleWords(c)
    \/ \E k \in spec.banned_keywords : k \in TitleWords(c)
    \/ c.brand \in spec.brand_blacklist
    \/ spec.brand_whitelist # {} /\ c.brand \notin spec.brand_whitelist

\* one criterion's score in [0, 1]: a lower price scores higher, the criteria
\* the listing carries no data for score at the midpoint
CriterionScore(spec, c, k) ==
    IF k = "price"
    THEN (IF c.price <= spec.budget_max /\ 10 * c.price <= Scale
          THEN Scale - 10 * c.price ELSE 0)
    ELSE Scale \div 2

ScoreBreakdown(spec, c) == [k \in Criteria |-> CriterionScore(spec, c, k)]

\* score_total: the sum over the five criteria of weight x score
WeightedSum(w, b) ==
    RoundDiv(SumOver([k \in Criteria |-> w[k] * b[k]], Criteria), Scale)

\* an element of explanation_bullets that is a { text, type } object
Bullet(text, type) == [t |-> "object", text |-> text, type |-> type]

AuthorityResult(spec, c) ==
    RankedResult(c, WeightedSum(spec.weights, ScoreBreakdown(spec, c)),
                 ScoreBreakdown(spec, c),
                 IF CriterionScore(spec, c, "price") >= 800
                 THEN << Bullet("low price", "positive") >> ELSE << >>)

\* a ranks before b: higher total, then lower price
RanksBefore(a, b) ==
    \/ a.score_total > b.score_total
    \/ a.score_total = b.score_total /\ a.listing.price < b.listing.price

RECURSIVE InsertByRank(_, _)
InsertByRank(x, sorted) ==
    IF sorted = << >> THEN << x >>
    ELSE IF RanksBefore(x, Head(sorted)) THEN << x >> \o sorted
    ELSE << Head(sorted) >> \o InsertByRank(x, Tail(sorted))

RECURSIVE SortByRank(_)
SortByRank(arr) ==
    IF arr = << >> THEN << >>
    ELSE InsertByRank(arr[Len(arr)], SortByRank(SubSeq(arr, 1, Len(arr) - 1)))

\* exclusion pass, scoring, explanation, ordering
AuthorityRanked(spec, cands) ==
    LET keep == SelectSeq(cands, LAMBDA c : c.t = "listing" /\ ~ViolatesExclusion(spec, c))
    IN  SortByRank([i \in 1..Len(keep) |-> AuthorityResult(spec, keep[i])])

DealRankResponses(spec, cands) ==
    { NetError,
      Http(FALSE, RankedBody(JUndefined)),
      Http(TRUE, NotJson),
      Http(TRUE, RankedBody(JUndefined)),
      Http(TRUE, RankedBody(JArr(AuthorityRanked(spec, cands)))) }

\* ------------------------------------------------------------------------
\* Service worker: handleFindDeals, gatherCandidates, rankCandidates
\* ------------------------------------------------------------------------
\* the listener takes a FIND_DEALS message; handleFindDeals runs up to the
\* fetch of fetchEbayCandidates
DealMessage(spec) ==
    /\ dPc = "idle"
    /\ dSpec' = spec
    /\ dPc' = "ebay"
    /\ UNCHANGED << dCands, dForwarded, dRankedBy, dRanked, dResult >>
    /\ UNCHANGED offDeal

\* POST /search/ebay settles; gatherCandidates pushes what it got
DealEbay(resp) ==
    /\ dPc = "ebay"
    /\ dCands' = GatherPush(<< >>, FetchEbayReturn(resp))
    /\ dPc' = "newegg"
    /\ UNCHANGED << dSpec, dForwarded, dRankedBy, dRanked, dResult >>
    /\ UNCHANGED offDeal

\* fetchNeweggCandidates settles; gatherCandidates pushes what it got
DealNewegg(out) ==
    /\ dPc = "newegg"
    /\ LET got == IF out.status = "reject" THEN JArr(<< >>)
                  ELSE FetchNeweggReturn(out.response)
       IN  dCands' = GatherPush(dCands, got)
    /\ dPc' = "gathered"
    /\ UNCHANGED << dSpec, dForwarded, dRankedBy, dRanked, dResult >>
    /\ UNCHANGED offDeal

\* back in handleFindDeals: the early return, or the body of POST /rank
DealAfterGather ==
    /\ dPc = "gathered"
    /\ IF NoCandidates(dCands)
       THEN /\ dResult' = OkResult(<< >>, "No candidates found", 0)
            /\ dPc' = "responded"
            /\ UNCHANGED dForwarded
       ELSE /\ dForwarded' = dSpec
            /\ dPc' = "rank"
            /\ UNCHANGED dResult
    /\ UNCHANGED << dSpec, dCands, dRankedBy, dRanked >>
    /\ UNCHANGED offDeal

\* POST /rank settles: data.ranked || [], or the catch's fallback
DealRank(resp) ==
    /\ dPc = "rank"
    /\ IF ~RankFails(resp)
       THEN /\ dRanked' = RankPrimaryReturn(resp)
            /\ dRankedBy' = "authority"
            /\ dPc' = "ranked"
            /\ UNCHANGED << dCands, dResult >>
       ELSE IF SortThrows(dCands)
       THEN /\ dRankedBy' = "threw"
            /\ dResult' = ErrorResult
            /\ dPc' = "responded"
            /\ UNCHANGED << dCands, dRanked >>
       ELSE /\ dCands' = SortByPrice(dCands)
            /\ dRanked' = FallbackRanking(SortByPrice(dCands))
            /\ dRankedBy' = "fallback"
            /\ dPc' = "ranked"
            /\ UNCHANGED dResult
    /\ UNCHANGED << dSpec, dForwarded >>
    /\ UNCHANGED offDeal

\* handleFindDeals returns and the listener calls sendResponse
DealRespond ==
    /\ dPc = "ranked"
    /\ dResult' = OkResult(dRanked, "", Len(dCands))
    /\ dPc' = "responded"
    /\ UNCHANGED << dSpec, dCands, dForwarded, dRankedBy, dRanked >>
    /\ UNCHANGED offDeal

DealNext ==
    \/ \E spec \in DecisionSpecs : DealMessage(spec)
    \/ \E resp \in DealEbayResponses : DealEbay(resp)
    \/ \E out \in DealNeweggOutcomes : DealNewegg(out)
    \/ DealAfterGather
    \/ dPc = "rank" /\ \E resp \in DealRankResponses(dForwarded, dCands) : DealRank(resp)
    \/ DealRespond

DealSpec == Init /\ [][DealNext]_vars

\* ------------------------------------------------------------------------
\* Properties of one FIND_DEALS request
\* ------------------------------------------------------------------------
\* gatherCandidates has returned
DealGathered == dPc \notin { "idle", "ebay", "newegg" }

\* a usable Listing: it has a title and a url
HasTitleAndUrl(c) == c.title # << >> /\ c.url # ""

\* C11: every Listing in the candidate list gatherCandidates returns has a
\* non-empty title and a non-empty url, whichever source it came from
C11_CandidatesHaveTitleAndUrl ==
    DealGathered =>
        \A i \in 1..Len(dCands) :
            dCands[i].t = "listing" => HasTitleAndUrl(dCands[i])

\* C12: the decision_spec in the body of POST /rank has weights that
\* validateWeights accepts, and a spec whose weights sum to zero is never
\* forwarded
C12_ForwardedWeightsValid ==
    /\ dForwarded # NoSpec => ValidateWeights(dForwarded.weights)
    /\ (dSpec # NoSpec /\ WeightSum(dSpec.weights) = 0) => dForwarded = NoSpec

\* rankCandidates has returned an array
DealRankReturned == dPc \in { "ranked", "responded" } /\ dRankedBy \in { "authority", "fallback" }

\* total is the weighted sum of the breakdown b; a breakdown that lacks a
\* criterion has no such sum
IsWeightedSum(total, w, b) ==
    /\ Criteria \subseteq DOMAIN b
    /\ total = WeightedSum(w, b)

\* C13: every RankedResult rankCandidates returns, from the authority or from
\* the fallback, has score_total in [0, 1] and equal to the weighted sum of
\* its score_breakdown under the DecisionSpec's weights
C13_ScoreIsWeightedSum ==
    DealRankReturned =>
        \A i \in 1..Len(dRanked) :
            /\ dRanked[i].score_total >= 0
            /\ dRanked[i].score_total <= Scale
            /\ IsWeightedSum(dRanked[i].score_total, dForwarded.weights,
                             dRanked[i].score_breakdown)

\* handleFindDeals answered with a ranked list
DealAnswered == dPc = "responded" /\ dResult.kind = "ok"

\* C14: the ranked list the FIND_DEALS handler returns is sorted
\* non-increasing by score_total and, among equal totals, by rising price,
\* for the authority's list and for the fallback list
C14_RankedIsOrdered ==
    DealAnswered =>
        \A i, j \in 1..Len(dResult.ranked) :
            i < j =>
                LET a == dResult.ranked[i]
                    b == dResult.ranked[j]
                IN  /\ a.score_total >= b.score_total
                    /\ a.score_total = b.score_total =>
                           PriceKey(a.listing) <= PriceKey(b.listing)

\* the fallback answered with listings it had to reorder: the cheapest, now
\* first, was gathered behind a dearer one
C14_Witness ==
    /\ DealAnswered
    /\ dRankedBy = "fallback"
    /\ Len(dResult.ranked) >= 3
    /\ PriceKey(dResult.ranked[1].listing) < PriceKey(dResult.ranked[3].listing)
    /\ dResult.ranked[3].listing.id < dResult.ranked[1].listing.id

\* a candidate that is no Listing has no condition, title or brand to pass
Excluded(spec, c) == c.t # "listing" \/ ViolatesExclusion(spec, c)

Elements(arr) == { arr[i] : i \in 1..Len(arr) }

\* C15 as stated: every listing in the ranked output is a gathered candidate
\* and violates no exclusion rule of the DecisionSpec
C15_RankedPassExclusion ==
    DealRankReturned =>
        \A i \in 1..Len(dRanked) :
            /\ dRanked[i].listing \in Elements(dCands)
            /\ ~Excluded(dSpec, dRanked[i].listing)

\* C15 amended: every listing in the ranked output is a gathered candidate;
\* in a list taken from the authority's response it violates no exclusion
\* rule; the fallback list is not filtered, it has min(10, count) entries
C15_RankedFromCandidates ==
    DealRankReturned =>
        /\ \A i \in 1..Len(dRanked) : dRanked[i].listing \in Elements(dCands)
        /\ dRankedBy = "authority" =>
               \A i \in 1..Len(dRanked) : ~Excluded(dSpec, dRanked[i].listing)
        /\ dRankedBy = "fallback" =>
               Len(dRanked) = Min(FallbackLimit, Len(dCands))

\* the fallback returned a listing that an exclusion rule rejects
C15_Witness ==
    /\ DealRankReturned
    /\ dRankedBy = "fallback"
    /\ \E i \in 1..Len(dRanked) :
           dRanked[i].listing.t = "listing" /\ ViolatesExclusion(dSpec, dRanked[i].listing)

BulletTypes == { "positive", "negative", "neutral" }

\* C16: every element of explanation_bullets of every RankedResult that
\* rankCandidates returns is a { text, type } record with type one of
\* positive, negative, neutral
C16_BulletsAreRecords ==
    DealRankReturned =>
        \A i \in 1..Len(dRanked) :
            \A j \in 1..Len(dRanked[i].explanation_bullets) :
                LET b == dRanked[i].explanation_bullets[j]
                IN  b.t = "object" /\ b.type \in BulletTypes

\* ========================================================================
\* shared/schema.js: validateWeights and normalizeWeights on one mapping
\* ========================================================================
\* calls of normalizeWeights in a row
MaxPasses == 2

\* the values a weight takes: the defaults' quarter, one hundredth to either
\* side of it, whole numbers, zero and a negative number
WeightValues == { 0 - 250, 0, 240, 250, 260, Scale, 4 * Scale }

WeightMappings == [Criteria -> WeightValues]

\* a caller holds a weights mapping
WeightsGiven(w) ==
    /\ wIn = NoSpec
    /\ wIn' = w
    /\ wPrev' = w
    /\ wCur' = w
    /\ UNCHANGED << wPasses, wValid >>
    /\ UNCHANGED offWeights

\* validateWeights(wCur): the result is all it produces
ValidateCall ==
    /\ wIn # NoSpec
    /\ wValid = "none"
    /\ wValid' = IF ValidateWeights(wCur) THEN "true" ELSE "false"
    /\ UNCHANGED << wIn, wPrev, wCur, wPasses >>
    /\ UNCHANGED offWeights

\* wCur = normalizeWeights(wCur)
NormalizeCall ==
    /\ wIn # NoSpec
    /\ wPasses < MaxPasses
    /\ wPrev' = wCur
    /\ wCur' = NormalizeWeights(wCur)
    /\ wPasses' = wPasses + 1
    /\ wValid' = "none"
    /\ UNCHANGED wIn
    /\ UNCHANGED offWeights

WeightNext ==
    \/ wIn = NoSpec /\ \E w \in WeightMappings : WeightsGiven(w)
    \/ ValidateCall
    \/ NormalizeCall

WeightSpec == Init /\ [][WeightNext]_vars

\* ------------------------------------------------------------------------
\* Properties of the weights helpers
\* ------------------------------------------------------------------------
NonNegative(w) == \A k \in DOMAIN w : w[k] >= 0

\* C17: validateWeights returns true exactly when the sum of the values is
\* within 0.01 of 1.0, a sum exactly 0.01 away included
C17_ValidIffWithinHundredth ==
    wValid # "none" =>
        (wValid = "true" <=> Abs(WeightSum(wCur) - Scale) <= Scale \div 100)

\* C18: for non-negative weights with a nonzero sum,
\* validateWeights(normalizeWeights(w)) is true
C18_NormalizedIsValid ==
    (wPasses = 1 /\ wValid # "none" /\ NonNegative(wIn) /\ WeightSum(wIn) # 0) =>
        wValid = "true"

\* weights that validateWeights rejects were normalized and then accepted
C18_Witness ==
    /\ wPasses = 1
    /\ NonNegative(wIn) /\ WeightSum(wIn) # 0
    /\ ~ValidateWeights(wIn)
    /\ wValid = "true"

\* C19 as stated: a second normalizeWeights returns a mapping with the same
\* keys and the same value per key as the first, for every mapping
C19_NormalizeIdempotent ==
    wPasses >= 2 => wCur = wPrev

\* two values that differ by the rounding of the divisions only: each of the
\* values summed may be off by half a step
WithinRounding(a, b) == 2 * Abs(a - b) <= Cardinality(Criteria) + 1

\* C19 amended: for non-negative weights a second normalizeWeights returns
\* the same keys and, per key, the same value up to rounding; when the sum
\* is zero both calls return the input itself
C19_NormalizeIdempotentUpToRounding ==
    (wPasses >= 2 /\ NonNegative(wIn)) =>
        /\ DOMAIN wCur = DOMAIN wPrev
        /\ \A k \in DOMAIN wCur : WithinRounding(wCur[k], wPrev[k])
        /\ WeightSum(wIn) = 0 => (wCur = wIn /\ wPrev = wIn)

\* the second call changed a value, by rounding
C19_Witness ==
    /\ wPasses = 2
    /\ NonNegative(wIn)
    /\ wCur # wPrev

\* ========================================================================
\* content/parsers/generic_product_page.js: GenericProductParser.extract
\* ========================================================================
\* a non-empty text and a nonzero number
Txt(s) == [t |-> "text", v |-> s]
Num(n) == [t |-> "number", v |-> n]

\* the first JSON-LD Product record of the page, if any: its name, its brand
\* and the price of its offers (JUndefined: the record has no such property)
NoLd == [t |-> "null"]
LdProduct(name, brand, offerPrice) ==
    [t |-> "object", name |-> name, brand |-> brand, offerPrice |-> offerPrice]

LdRecords ==
    { NoLd } \cup
    { LdProduct(n, Txt("ld brand"), o) :
        n \in { JUndefined, Txt("ld title") },
        o \in { JUndefined, Num(30) } }

\* what the meta tags and the selector cascades of the page yield per field
FieldTexts(name) == { JNull, Txt(name) }
MetaTags ==
    { [title |-> ti, price |-> pr, brand |-> br] :
        ti \in FieldTexts("og title"), pr \in { JNull, Num(20) },
        br \in FieldTexts("meta brand") }
DomTexts ==
    { [title |-> ti, price |-> pr, brand |-> br] :
        ti \in FieldTexts("h1 title"), pr \in { JNull, Num(10) },
        br \in FieldTexts("dom brand") }

Pages == { [ld |-> l, meta |-> m, dom |-> d] : l \in LdRecords, m \in MetaTags, d \in DomTexts }

\* const context = { type: 'unknown', url, source, timestamp }
EmptyContext ==
    [t |-> "object", type |-> "unknown", title |-> JUndefined, brand |-> JUndefined,
     price |-> JUndefined, currency |-> JUndefined, condition |-> JUndefined,
     keywords |-> JUndefined]

\* Object.assign(context, parseJsonLdProduct(item)); price, currency and
\* condition are set only when the record has offers
AssignJsonLd(ctx, ld) ==
    LET named == [ctx EXCEPT !.title = ld.name, !.brand = ld.brand]
    IN  IF Truthy(ld.offerPrice)
        THEN [named EXCEPT !.price = ld.offerPrice, !.currency = Txt("USD"),
                           !.condition = Txt("unknown")]
        ELSE named

\* Object.assign(context, extractMetaTags())
AssignMeta(ctx, meta) ==
    [ctx EXCEPT !.title = meta.title, !.price = meta.price,
                !.currency = Txt("USD"), !.brand = meta.brand]

\* Object.assign(context, extractFromDom()): every key of the result is
\* copied, null included
AssignDom(ctx, dom) ==
    [ctx EXCEPT !.title = dom.title, !.price = dom.price, !.brand = dom.brand,
                !.condition = Txt("unknown")]

\* generateKeywords: the brand and the title that are there
GenerateKeywords(ctx) ==
    (IF Truthy(ctx.brand) THEN << ctx.brand.v >> ELSE << >>) \o
    (IF Truthy(ctx.title) THEN << ctx.title.v >> ELSE << >>)

\* GenericProductParser.extract
Extract(page) ==
    IF page.ld # NoLd
    THEN [AssignJsonLd(EmptyContext, page.ld) EXCEPT !.type = "product"]
    ELSE LET afterMeta == IF Truthy(page.meta.title)
                          THEN AssignMeta(EmptyContext, page.meta)
                          ELSE EmptyContext
             afterDom == IF Truthy(page.dom.title) \/ Truthy(page.dom.price)
                         THEN [AssignDom(afterMeta, page.dom) EXCEPT !.type = "product"]
                         ELSE afterMeta
         IN  [afterDom EXCEPT !.keywords = GenerateKeywords(afterDom)]

\* the content script is injected into a page
PageLoaded(page) ==
    /\ pPage = NoSpec
    /\ pPage' = page
    /\ UNCHANGED pContext
    /\ UNCHANGED offProduct

\* extractPageContext calls window.GenericProductParser.extract()
ExtractCall ==
    /\ pPage # NoSpec
    /\ pContext = NoSpec
    /\ pContext' = Extract(pPage)
    /\ UNCHANGED pPage
    /\ UNCHANGED offProduct

ProductNext ==
    \/ pPage = NoSpec /\ \E page \in Pages : PageLoaded(page)
    \/ ExtractCall

ProductSpec == Init /\ [][ProductNext]_vars

\* ------------------------------------------------------------------------
\* Properties of GenericProductParser.extract
\* ------------------------------------------------------------------------
CascadeFields == { "title", "price", "brand" }

\* the value of field f in the JSON-LD record
LdField(ld, f) ==
    IF f = "title" THEN ld.name ELSE IF f = "price" THEN ld.offerPrice ELSE ld.brand

\* extract() merged the meta tags into the context
MetaAccepted(page) == page.ld = NoLd /\ Truthy(page.meta.title)

\* a strategy that extract() consulted found the title
TitleFound(page) ==
    \/ page.ld # NoLd /\ Truthy(page.ld.name)
    \/ page.ld = NoLd /\ (Truthy(page.meta.title) \/ Truthy(page.dom.title))

\* C20: the first success wins per field: a non-empty value from the
\* structured data, or else from the meta tags, is what extract() reports,
\* never a value or null from a later strategy; and a page whose title a
\* strategy found is reported with type 'product'
C20_FirstSuccessWins ==
    pContext # NoSpec =>
        /\ \A f \in CascadeFields :
               /\ (pPage.ld # NoLd /\ Truthy(LdField(pPage.ld, f))) =>
                      pContext[f] = LdField(pPage.ld, f)
               /\ (MetaAccepted(pPage) /\ Truthy(pPage.meta[f])) =>
                      pContext[f] = pPage.meta[f]
        /\ TitleFound(pPage) => pContext.type = "product"

\* ========================================================================
\* content/parsers: the text of one element, character by character
\* ========================================================================
UpperCase == << "A", "B", "C", "D", "E", "F", "G", "H", "I", "J", "K", "L", "M",
                "N", "O", "P", "Q", "R", "S", "T", "U", "V", "W", "X", "Y", "Z" >>
LowerCase == << "a", "b", "c", "d", "e", "f", "g", "h", "i", "j", "k", "l", "m",
                "n", "o", "p", "q", "r", "s", "t", "u", "v", "w", "x", "y", "z" >>
Digits == << "0", "1", "2", "3", "4", "5", "6", "7", "8", "9" >>

DigitValue(c) == (CHOOSE i \in 1..Len(Digits) : Digits[i] = c) - 1

\* the character classes of the parsers' regular expressions: [A-Z], \d,
\* \w, \s, \S, [\d.] and [\d,]
InClass(c, class) ==
    CASE class = "upper" -> \E i \in 1..Len(UpperCase) : UpperCase[i] = c
      [] class = "digit" -> \E i \in 1..Len(Digits) : Digits[i] = c
      [] class = "word" -> \/ \E i \in 1..Len(UpperCase) : UpperCase[i] = c
                           \/ \E i \in 1..Len(LowerCase) : LowerCase[i] = c
                           \/ \E i \in 1..Len(Digits) : Digits[i] = c
                           \/ c = "_"
      [] class = "space" -> c = " "
      [] class = "non_space" -> c # " "
      [] class = "digit_dot" -> (\E i \in 1..Len(Digits) : Digits[i] = c) \/ c = "."
      [] class = "digit_comma" -> (\E i \in 1..Len(Digits) : Digits[i] = c) \/ c = ","

\* String.prototype.toLowerCase
ToLowerCase(s) ==
    [i \in 1..Len(s) |->
        IF InClass(s[i], "upper") THEN LowerCase[CHOOSE k \in 1..Len(UpperCase) : UpperCase[k] = s[i]]
        ELSE s[i]]

\* pat occurs in s at position i
OccursAt(s, pat, i) ==
    /\ i + Len(pat) - 1 <= Len(s)
    /\ \A k \in 1..Len(pat) : s[i + k - 1] = pat[k]

\* String.prototype.includes
Includes(s, pat) == \E i \in 1..(Len(s) + 1) : OccursAt(s, pat, i)

\* the longest run of characters of a class that starts at position i
RunEnd(s, i, class) ==
    IF i > Len(s) THEN i
    ELSE CHOOSE j \in i..(Len(s) + 1) :
             /\ \A k \in i..(j - 1) : InClass(s[k], class)
             /\ j = Len(s) + 1 \/ ~InClass(s[j], class)

\* a number in hundredths, and NaN
Hundredths(n) == [t |-> "number", v |-> n]
NaN == [t |-> "NaN"]

\* the value of a run of digits
RECURSIVE DigitsValue(_)
DigitsValue(s) ==
    IF s = << >> THEN 0
    ELSE 10 * DigitsValue(SubSeq(s, 1, Len(s) - 1)) + DigitValue(s[Len(s)])

\* parseFloat of a string of digits and dots: the digits up to a second
\* dot, NaN when there is no digit at its head
ParseFloat(s) ==
    LET Number(int, frac) ==
            IF int = << >> /\ frac = << >> THEN NaN
            ELSE Hundredths(100 * DigitsValue(int)
                            + 10 * (IF Len(frac) >= 1 THEN DigitValue(frac[1]) ELSE 0)
                            + (IF Len(frac) >= 2 THEN DigitValue(frac[2]) ELSE 0))
        FromDot(intEnd) ==
            Number(SubSeq(s, 1, intEnd - 1),
                   IF intEnd <= Len(s) /\ s[intEnd] = "."
                   THEN SubSeq(s, intEnd + 1, RunEnd(s, intEnd + 1, "digit") - 1)
                   ELSE << >>)
    IN  FromDot(RunEnd(s, 1, "digit"))

\* String.prototype.replace(/,/g, '')
WithoutCommas(s) == SelectSeq(s, LAMBDA c : c # ",")

\* ------------------------------------------------------------------------
\* condition
\* ------------------------------------------------------------------------
\* GenericProductParser.parseCondition; text is null or a string
ParseCondition(text) ==
    IF ~Truthy(text) THEN "unknown"
    ELSE LET lower == ToLowerCase(text.v)
         IN  IF Includes(lower, << "n", "e", "w" >>) THEN "new"
             ELSE IF Includes(lower, << "r", "e", "f", "u", "r", "b" >>) \/ Includes(lower, << "r", "e", "n", "e", "w", "e", "d" >>) THEN "refurb"
             ELSE IF Includes(lower, << "u", "s", "e", "d" >>) \/ Includes(lower, << "p", "r", "e", "-", "o", "w", "n", "e", "d" >>) THEN "used"
             ELSE "unknown"

\* GenericSearchParser.parseListingElement, the condition of a card; text is
\* null when the card has no [class*="condition"] element
CardCondition(text) ==
    IF text = JNull THEN "unknown"
    ELSE LET lower == ToLowerCase(text.v)
         IN  IF Includes(lower, << "n", "e", "w" >>) THEN "new"
             ELSE IF Includes(lower, << "r", "e", "f", "u", "r", "b" >>) THEN "refurb"
             ELSE IF Includes(lower, << "u", "s", "e", "d" >>) THEN "used"
             ELSE "unknown"

\* ------------------------------------------------------------------------
\* shipping cost
\* ------------------------------------------------------------------------
\* text.match(/\$([\d.]+)/): the positions of the leftmost "$" that a digit
\* or a dot follows, 0 when there is none
DollarMatch(s) ==
    LET at == { i \in 1..Len(s) : s[i] = "$" /\ i < Len(s) /\ InClass(s[i + 1], "digit_dot") }
    IN  IF at = { } THEN 0 ELSE CHOOSE i \in at : \A j \in at : i <= j

\* the shipping cost of a search-result card (parseItem 87-99,
\* parseListingElement 246-258); text is null when the card has no shipping
\* element
CardShippingCost(text) ==
    LET Amount(lower, m) ==
            IF m = 0 THEN JNull
            ELSE ParseFloat(SubSeq(lower, m + 1, RunEnd(lower, m + 1, "digit_dot") - 1))
        Cost(lower) ==
            IF Includes(lower, << "f", "r", "e", "e" >>) THEN Hundredths(0)
            ELSE Amount(lower, DollarMatch(lower))
    IN  IF text = JNull THEN JNull ELSE Cost(ToLowerCase(text.v))

\* GenericProductParser.parsePrice: text.match(/\$?\s*([\d,]+\.?\d*)/) finds
\* the first run of digits and commas, whatever precedes it
ParsePrice(text) ==
    IF ~Truthy(text) THEN JNull
    ELSE LET s == text.v
             at == { i \in 1..Len(s) : InClass(s[i], "digit_comma") }
             first == CHOOSE i \in at : \A j \in at : i <= j
             intEnd == RunEnd(s, first, "digit_comma")
             hasDot == intEnd <= Len(s) /\ s[intEnd] = "."
             fracEnd == IF hasDot THEN RunEnd(s, intEnd + 1, "digit") ELSE intEnd
         IN  IF at = { } THEN JNull
             ELSE ParseFloat(WithoutCommas(SubSeq(s, first, fracEnd - 1)))

\* GenericProductParser.extractFromDom, result.shippingCost
DomShippingCost(text) ==
    IF Truthy(text) /\ Includes(ToLowerCase(text.v), << "f", "r", "e", "e" >>) THEN Hundredths(0)
    ELSE ParsePrice(text)

\* ------------------------------------------------------------------------
\* seller rating
\* ------------------------------------------------------------------------
\* ariaLabel.match(/([\d.]+)\s*out of\s*5/i): the start and the end of the
\* group of the leftmost match, << 0, 0 >> when there is none
RatingMatch(s) ==
    LET \* after the group: \s*, "out of", \s*, "5"
        AfterGroup(lower, e) ==
            \E a \in { RunEnd(lower, e, "space") } :
                /\ OccursAt(lower, << "o", "u", "t", " ", "o", "f" >>, a)
                /\ \E b \in { RunEnd(lower, a + Len(<< "o", "u", "t", " ", "o", "f" >>), "space") } :
                       b <= Len(lower) /\ lower[b] = "5"
        \* the group is a whole run of [\d.]: "out of" cannot begin inside it
        Hits(lower) ==
            { i \in 1..Len(s) :
                /\ InClass(s[i], "digit_dot")
                /\ AfterGroup(lower, RunEnd(s, i, "digit_dot")) }
        Group(i) == << i, RunEnd(s, i, "digit_dot") >>
        Leftmost(hits) ==
            IF hits = { } THEN << 0, 0 >>
            ELSE Group(CHOOSE i \in hits : \A j \in hits : i <= j)
    IN  Leftmost(Hits(ToLowerCase(s)))

\* (parseFloat(x) / 5) * 100, on hundredths
FiveStarToPercent(x) == IF x = NaN THEN NaN ELSE Hundredths(x.v * 20)

\* NeweggSearchParser.parseItem, seller.rating; label is the aria-label (or
\* title) of the rating element, null when there is none
SellerRating(label) ==
    LET Rating(m) ==
            IF m[1] = 0 THEN JNull
            ELSE FiveStarToPercent(ParseFloat(SubSeq(label.v, m[1], m[2] - 1)))
    IN  IF label = JNull THEN JNull ELSE Rating(RatingMatch(label.v))

\* ------------------------------------------------------------------------
\* key terms
\* ------------------------------------------------------------------------
KeyTermLimit == 10

\* String.prototype.split(/\s+/)
RECURSIVE SplitOnSpace(_)
SplitOnSpace(s) ==
    LET Pieces(wordEnd, gapEnd) ==
            IF gapEnd > Len(s)
            THEN IF wordEnd > Len(s) THEN << s >> ELSE << SubSeq(s, 1, wordEnd - 1), << >> >>
            ELSE << SubSeq(s, 1, wordEnd - 1) >> \o SplitOnSpace(SubSeq(s, gapEnd, Len(s)))
        Word(wordEnd) == Pieces(wordEnd, RunEnd(s, wordEnd, "space"))
    IN  Word(RunEnd(s, 1, "non_space"))

\* NeweggSearchParser.parseItem, specs.key_terms of a non-empty title
KeyTerms(title) ==
    LET Clean(lower) ==
            [i \in 1..Len(lower) |->
                IF InClass(lower[i], "word") \/ InClass(lower[i], "space") THEN lower[i] ELSE " "]
        First(long) == SubSeq(long, 1, Min(KeyTermLimit, Len(long)))
    IN  First(SelectSeq(SplitOnSpace(Clean(ToLowerCase(title))), LAMBDA w : Len(w) > 2))

\* ------------------------------------------------------------------------
\* one result card and its Listing
\* ------------------------------------------------------------------------
\* an absolute URL; product is the segment after "/p/", 0 when the path has
\* no such segment
Url(product) == [t |-> "url", product |-> product]

\* one result-card element: what the title selector finds in it ("anchor",
\* an element that is no anchor and has no href: "other", or "none"), the
\* trimmed text of that element, its href, and the text of the card's
\* shipping element, the aria-label of its rating element and the text of
\* its condition element (null: no such element)
Card(link, text, href, shipping, rating, condition) ==
    [link |-> link, text |-> text, href |-> href, shipping |-> shipping,
     rating |-> rating, condition |-> condition]

\* the id of a listing: `newegg-${idMatch[1]}`, or `${source}-${Date.now()}-${index}`
UrlId(product) == [kind |-> "url", product |-> product]
GeneratedId(index) == [kind |-> "generated", index |-> index]

\* the Listing a card is parsed into, with the fields the parsers fill from
\* the card's texts
CardListing(id, title, url, condition, cost, rating, terms) ==
    [id |-> id, title |-> title, url |-> url, condition |-> condition,
     shipping_cost |-> cost, seller_rating |-> rating, key_terms |-> terms]

\* NeweggSearchParser.parseItem: listing.url.match(...) throws when the
\* element the title selector found has no href
CardThrows(el) == el.link = "other"

\* NeweggSearchParser.parseItem, field by field
ParseItemFields(el, index) ==
    LET found == el.link # "none"
        title == IF found THEN el.text ELSE JStr(<< >>)
        url == IF found THEN el.href ELSE JStr(<< >>)
        id == IF found /\ url.t = "url" /\ url.product # 0
              THEN UrlId(url.product) ELSE GeneratedId(index)
    IN  CardListing(id, title, url, "new", CardShippingCost(el.shipping),
                    SellerRating(el.rating),
                    IF Truthy(title) THEN KeyTerms(title.v) ELSE << >>)

\* GenericSearchParser.parseListingElement, field by field; its link
\* selector matches anchors only
ParseListingElementFields(el, index) ==
    LET found == el.link = "anchor"
    IN  CardListing(GeneratedId(index),
                    IF found THEN el.text ELSE JStr(<< >>),
                    IF found THEN el.href ELSE JStr(<< >>),
                    CardCondition(el.condition), CardShippingCost(el.shipping),
                    JNull, << >>)

\* listing.title && listing.url
Kept(l) == Truthy(l.title) /\ Truthy(l.url)

\* NeweggSearchParser.scrape: every item is parsed inside try/catch, kept
\* when it has a title and a url, then .slice(0, 20)
NeweggScrapeFields(items) ==
    LET Caught == [threw |-> TRUE]
        parsed == [i \in 1..Len(items) |->
                      IF CardThrows(items[i]) THEN Caught ELSE ParseItemFields(items[i], i - 1)]
        First(kept) == SubSeq(kept, 1, Min(ScrapeLimit, Len(kept)))
    IN  First(SelectSeq(parsed, LAMBDA l : l # Caught /\ Kept(l)))

\* GenericSearchParser.scrapeResults: .slice(0, 20).map(...).filter(...)
GenericScrapeFields(items) ==
    LET first == SubSeq(items, 1, Min(ScrapeLimit, Len(items)))
        parsed == [i \in 1..Len(first) |-> ParseListingElementFields(first[i], i - 1)]
    IN  SelectSeq(parsed, Kept)

\* ------------------------------------------------------------------------
\* JSON-LD blocks
\* ------------------------------------------------------------------------
\* one <script type="application/ld+json">: text that is no JSON, the JSON
\* value null, an object of another @type, a Product, a Product whose offers
\* is an empty array, an object with a Product in its @graph, and an object
\* whose @graph is not iterable
LdBlock(kind, name) == [kind |-> kind, name |-> name]
LdBlockKinds == { "invalid", "null", "other", "product", "empty_offers", "graph", "bad_graph" }

\* the body of the try block throws: JSON.parse, null['@type'],
\* undefined.price in parseJsonLdProduct, for...of over a non-iterable
BlockThrows(b) == b.kind \in { "invalid", "null", "empty_offers", "bad_graph" }

\* the block holds a Product that parseJsonLdProduct returns
BlockHasProduct(b) == b.kind \in { "product", "graph" }

\* mutant: a block that throws ends the search
ExtractJsonLdAborting(blocks) ==
    LET hits == { i \in 1..Len(blocks) :
                     /\ BlockHasProduct(blocks[i])
                     /\ \A j \in 1..(i - 1) : ~BlockThrows(blocks[j]) }
    IN  IF hits = { } THEN JNull
        ELSE [t |-> "object", title |-> blocks[CHOOSE i \in hits : \A j \in hits : i <= j].name]

\* GenericProductParser.extractJsonLd: the first block with a Product; a
\* block that throws is caught and the loop goes on
ExtractJsonLd(blocks) ==
    LET hits == { i \in 1..Len(blocks) : BlockHasProduct(blocks[i]) }
    IN  IF hits = { } THEN JNull
        ELSE [t |-> "object", title |-> blocks[CHOOSE i \in hits : \A j \in hits : i <= j].name]

\* ------------------------------------------------------------------------
\* documents
\* ------------------------------------------------------------------------
\* the most cards a page has
MaxCards == 21

ConditionTexts ==
    { JNull, JStr(<< "N", "e", "w" >>), JStr(<< "R", "e", "n", "e", "w", "e", "d" >>), JStr(<< "R", "e", "f", "u", "r", "b", "i", "s", "h", "e", "d" >>), JStr(<< "U", "s", "e", "d" >>),
      JStr(<< "U", "S", "E", "D", " ", "-", " ", "g", "o", "o", "d" >>), JStr(<< "P", "r", "e", "-", "o", "w", "n", "e", "d" >>), JStr(<< "O", "p", "e", "n", " ", "b", "o", "x" >>) }

ShippingTexts ==
    { JNull, JStr(<< "F", "R", "E", "E", " ", "S", "h", "i", "p", "p", "i", "n", "g" >>), JStr(<< "$", "5", ".", "9", "9", " ", "S", "h", "i", "p", "p", "i", "n", "g" >>), JStr(<< "$", "4", " ", "s", "h", "i", "p", "p", "i", "n", "g" >>),
      JStr(<< "S", "h", "i", "p", "s", " ", "i", "n", " ", "3", " ", "d", "a", "y", "s" >>), JStr(<< "C", "a", "l", "c", "u", "l", "a", "t", "e", "d", " ", "a", "t", " ", "c", "h", "e", "c", "k", "o", "u", "t" >>) }

RatingLabels ==
    { JNull, JStr(<< "R", "a", "t", "e", "d", " ", "4", ".", "5", " ", "o", "u", "t", " ", "o", "f", " ", "5", " ", "e", "g", "g", "s" >>), JStr(<< "5", " ", "O", "U", "T", " ", "O", "F", " ", "5" >>), JStr(<< "3", " ", "o", "u", "t", " ", "o", "f", " ", "5" >>),
      JStr(<< "9", " ", "o", "u", "t", " ", "o", "f", " ", "5" >>), JStr(<< "n", "o", "t", " ", "r", "a", "t", "e", "d" >>) }

Titles ==
    { JStr(<< "M", "S", "I", " ", "R", "T", "X", " ", "4", "0", "7", "0" >>), JStr(<< "R", "T", "X", " ", "4", "0", "7", "0", " ", "-", " ", "r", "t", "x", " ", "O", "C" >>), JStr(<< "U", "S", "B", "-", "C", " ", "H", "u", "b", " ", "u", "s", "b" >>),
      JStr(<< "F", "a", "n" >>), JStr(<< "S", "S", "D", " ", "1", "T", "B", ",", " ", "s", "s", "d" >>) }

\* a card with a title, a link to product n and nothing else
PlainCard(n) == Card("anchor", JStr(<< "M", "S", "I", " ", "R", "T", "X", " ", "4", "0", "7", "0" >>), Url(n), JNull, JNull, JNull)

\* a card that yields no Listing: no title link, a title element that is no
\* anchor, an anchor without text
BrokenCards ==
    { Card("none", JStr(<< >>), JStr(<< >>), JNull, JNull, JNull),
      Card("other", JStr(<< "M", "S", "I", " ", "R", "T", "X", " ", "4", "0", "7", "0" >>), JUndefined, JNull, JNull, JNull),
      Card("anchor", JStr(<< >>), Url(1), JNull, JNull, JNull) }

\* a page of n cards with distinct products, its card at position at
\* replaced by card
PageWith(n, at, card) == [i \in 1..n |-> IF i = at THEN card ELSE PlainCard(i)]

Document(cards, shipping, condition, blocks) ==
    [cards |-> cards, shipping |-> shipping, condition |-> condition, blocks |-> blocks]

\* documents that differ in one text, shown both in a result card and in the
\* product DOM
TextDocuments ==
    { Document(<< Card("anchor", JStr(<< "M", "S", "I", " ", "R", "T", "X", " ", "4", "0", "7", "0" >>), Url(1), JNull, JNull, c) >>,
               JNull, c, << >>) : c \in ConditionTexts } \cup
    { Document(<< Card("anchor", JStr(<< "M", "S", "I", " ", "R", "T", "X", " ", "4", "0", "7", "0" >>), Url(1), x, JNull, JNull) >>,
               x, JNull, << >>) : x \in ShippingTexts } \cup
    { Document(<< Card("anchor", JStr(<< "M", "S", "I", " ", "R", "T", "X", " ", "4", "0", "7", "0" >>), Url(1), JNull, r, JNull) >>,
               JNull, JNull, << >>) : r \in RatingLabels } \cup
    { Document(<< Card("anchor", ti, Url(0), JNull, JNull, JNull) >>,
               JNull, JNull, << >>) : ti \in Titles }

\* pages of up to MaxCards cards, the first or the second of them broken or
\* a card of the first card's product
CardDocuments ==
    { Document(PageWith(n, at, card), JNull, JNull, << >>) :
        n \in 0..MaxCards, at \in 0..2, card \in BrokenCards \cup { PlainCard(1) } }

\* documents with up to two JSON-LD blocks
LdBlocks == { LdBlock(k, "ld title") : k \in LdBlockKinds }
BlockDocuments ==
    { Document(<< >>, JNull, JNull, << b >>) : b \in LdBlocks } \cup
    { Document(<< >>, JNull, JNull, << a, LdBlock(k, "second title") >>) :
        a \in LdBlocks, k \in LdBlockKinds }

Documents == TextDocuments \cup CardDocuments \cup BlockDocuments

\* ------------------------------------------------------------------------
\* parser calls
\* ------------------------------------------------------------------------
\* the content script runs in a document
DocumentLoaded(doc) ==
    /\ sDoc = NoSpec
    /\ sDoc' = doc
    /\ UNCHANGED sOut
    /\ UNCHANGED offScrape

\* window.NeweggSearchParser.scrape(): items.forEach parses every item
NeweggScrapeCall ==
    /\ sDoc # NoSpec /\ sOut = NoSpec
    /\ sOut' = [op |-> "NeweggSearchParser.scrape", threw |-> FALSE,
                parsed |-> Len(sDoc.cards),
                listings |-> NeweggScrapeFields(sDoc.cards)]
    /\ UNCHANGED sDoc
    /\ UNCHANGED offScrape

\* window.GenericSearchParser.scrapeResults(): the first 20 elements are
\* parsed
GenericScrapeCall ==
    /\ sDoc # NoSpec /\ sOut = NoSpec
    /\ sOut' = [op |-> "GenericSearchParser.scrapeResults", threw |-> FALSE,
                parsed |-> Min(ScrapeLimit, Len(sDoc.cards)),
                listings |-> GenericScrapeFields(sDoc.cards)]
    /\ UNCHANGED sDoc
    /\ UNCHANGED offScrape

\* GenericProductParser.extractFromDom(): shipping cost and condition
ExtractFromDomCall ==
    /\ sDoc # NoSpec /\ sOut = NoSpec
    /\ sOut' = [op |-> "GenericProductParser.extractFromDom", threw |-> FALSE,
                shippingCost |-> DomShippingCost(sDoc.shipping),
                condition |-> ParseCondition(sDoc.condition)]
    /\ UNCHANGED sDoc
    /\ UNCHANGED offScrape

\* GenericProductParser.extractJsonLd()
ExtractJsonLdCall ==
    /\ sDoc # NoSpec /\ sOut = NoSpec
    /\ sOut' = [op |-> "GenericProductParser.extractJsonLd", threw |-> FALSE,
                product |-> ExtractJsonLd(sDoc.blocks)]
    /\ UNCHANGED sDoc
    /\ UNCHANGED offScrape

ScrapeNext ==
    \/ sDoc = NoSpec /\ \E doc \in Documents : DocumentLoaded(doc)
    \/ NeweggScrapeCall
    \/ GenericScrapeCall
    \/ ExtractFromDomCall
    \/ ExtractJsonLdCall

ScrapeSpec == Init /\ [][ScrapeNext]_vars

\* ------------------------------------------------------------------------
\* Properties of the parsers
\* ------------------------------------------------------------------------
\* the call of op has returned
Returned(op) == sOut # NoSpec /\ sOut.op = op

\* the card a Listing of GenericSearchParser.scrapeResults was parsed from
CardOf(l) == sDoc.cards[l.id.index + 1]

\* the keywords of each condition
ConditionKeywords ==
    [new |-> { << "n", "e", "w" >> }, refurb |-> { << "r", "e", "f", "u", "r", "b" >>, << "r", "e", "n", "e", "w", "e", "d" >> },
     used |-> { << "u", "s", "e", "d" >>, << "p", "r", "e", "-", "o", "w", "n", "e", "d" >> }]

\* the conditions a text may be classified as: those it contains a keyword
\* of, unknown when it contains none or is absent
ConditionsOf(text) ==
    LET named == IF ~Truthy(text) THEN { }
                 ELSE { c \in DOMAIN ConditionKeywords :
                          \E k \in ConditionKeywords[c] : Includes(ToLowerCase(text.v), k) }
    IN  IF named = { } THEN { "unknown" } ELSE named

\* C21: condition text is classified by case-insensitive substring match,
\* the same way in the product-page parser and in the search-result card
\* parser: a text with a keyword of new, refurb or used gets that condition,
\* any other or absent text gets unknown
C21_ConditionBySubstring ==
    /\ Returned("GenericProductParser.extractFromDom") =>
           sOut.condition \in ConditionsOf(sDoc.condition)
    /\ Returned("GenericSearchParser.scrapeResults") =>
           \A i \in 1..Len(sOut.listings) :
               LET l == sOut.listings[i]
               IN  /\ l.condition \in ConditionsOf(CardOf(l).condition)
                   /\ l.condition = ParseCondition(CardOf(l).condition)

\* the cards of the document a Listing of a scrape has its title and url from
CardsOf(l) == { c \in Elements(sDoc.cards) : c.link = "anchor" /\ c.text = l.title /\ c.href = l.url }

\* cost is what the shipping text stands for: 0 when it contains "free",
\* else the number after its first "$", else null
ShippingLaw(text, cost) ==
    IF ~Truthy(text) THEN cost = JNull
    ELSE LET lower == ToLowerCase(text.v)
             m == DollarMatch(lower)
         IN  IF Includes(lower, << "f", "r", "e", "e" >>) THEN cost = Hundredths(0)
             ELSE IF m = 0 THEN cost = JNull
             ELSE cost = ParseFloat(SubSeq(lower, m + 1, RunEnd(lower, m + 1, "digit_dot") - 1))

\* C22: in every parser shipping text containing "free" gives cost 0,
\* otherwise the cost is the number that follows a "$", and absent text or
\* text with neither gives null, never 0 and never another number of the
\* text
C22_ShippingCostLaw ==
    /\ Returned("GenericProductParser.extractFromDom") =>
           ShippingLaw(sDoc.shipping, sOut.shippingCost)
    /\ (Returned("GenericSearchParser.scrapeResults") \/ Returned("NeweggSearchParser.scrape")) =>
           \A i \in 1..Len(sOut.listings) :
               \E c \in CardsOf(sOut.listings[i]) :
                   ShippingLaw(c.shipping, sOut.listings[i].shipping_cost)

\* C23: no extraction operation raises on malformed input: extractJsonLd
\* skips a block that fails to parse or has an unexpected shape and returns
\* the Product of the first later block that has one, and both scrapes drop
\* a card that is malformed or matches no selector and return the Listing
\* of every other card (up to the limit of 20)
C23_MalformedInputIsSkipped ==
    sOut # NoSpec =>
        /\ ~sOut.threw
        /\ Returned("GenericProductParser.extractJsonLd") =>
               \A i \in 1..Len(sDoc.blocks) :
                   (/\ BlockHasProduct(sDoc.blocks[i])
                    /\ \A j \in 1..(i - 1) : ~BlockHasProduct(sDoc.blocks[j]))
                   => sOut.product = [t |-> "object", title |-> sDoc.blocks[i].name]
        /\ (Returned("GenericSearchParser.scrapeResults") \/ Returned("NeweggSearchParser.scrape")) =>
               \A i \in 1..Min(ScrapeLimit, Len(sDoc.cards)) :
                   LET c == sDoc.cards[i]
                   IN  (c.link = "anchor" /\ Truthy(c.text) /\ Truthy(c.href)) =>
                           \E k \in 1..Len(sOut.listings) :
                               /\ sOut.listings[k].title = c.text
                               /\ sOut.listings[k].url = c.href

\* a malformed block came before a Product block and a scrape met a broken
\* card before a good one
C23_Witness ==
    \/ /\ Returned("GenericProductParser.extractJsonLd")
       /\ Len(sDoc.blocks) = 2
       /\ BlockThrows(sDoc.blocks[1])
       /\ sOut.product = [t |-> "object", title |-> "second title"]
    \/ /\ Returned("NeweggSearchParser.scrape")
       /\ Len(sDoc.cards) = 3
       /\ CardThrows(sDoc.cards[1])
       /\ Len(sOut.listings) = 2

\* the listings come from cards of the page, in the order of the page
RECURSIVE InPageOrder(_, _)
InPageOrder(listings, cards) ==
    IF listings = << >> THEN TRUE
    ELSE IF cards = << >> THEN FALSE
    ELSE IF /\ Head(cards).link = "anchor"
            /\ Head(cards).text = Head(listings).title
            /\ Head(cards).href = Head(listings).url
         THEN InPageOrder(Tail(listings), Tail(cards))
         ELSE InPageOrder(listings, Tail(cards))

\* C24: a search-page scrape parses at most 20 result-card elements and
\* returns at most 20 Listings, in page order
C24_ScrapeIsBounded ==
    (Returned("GenericSearchParser.scrapeResults") \/ Returned("NeweggSearchParser.scrape")) =>
        /\ sOut.parsed <= ScrapeLimit
        /\ Len(sOut.listings) <= ScrapeLimit
        /\ InPageOrder(sOut.listings, sDoc.cards)

\* C25: the Listings one scrape returns have pairwise distinct ids
C25_IdsAreDistinct ==
    (Returned("GenericSearchParser.scrapeResults") \/ Returned("NeweggSearchParser.scrape")) =>
        \A i, j \in 1..Len(sOut.listings) :
            i # j => sOut.listings[i].id # sOut.listings[j].id

\* C26: key_terms is a sequence of lowercase tokens with no token occurring
\* twice
C26_KeyTermsAreDistinct ==
    (Returned("GenericSearchParser.scrapeResults") \/ Returned("NeweggSearchParser.scrape")) =>
        \A i \in 1..Len(sOut.listings) :
            LET terms == sOut.listings[i].key_terms
            IN  /\ \A k \in 1..Len(terms) : ToLowerCase(terms[k]) = terms[k]
                /\ \A k, m \in 1..Len(terms) : k # m => terms[k] # terms[m]

\* C27: seller.rating is null or a number from 0 to 100, whatever the
\* rating text
C27_RatingInRange ==
    (Returned("GenericSearchParser.scrapeResults") \/ Returned("NeweggSearchParser.scrape")) =>
        \A i \in 1..Len(sOut.listings) :
            LET rating == sOut.listings[i].seller_rating
            IN  \/ rating = JNull
                \/ rating.t = "number" /\ rating.v >= 0 /\ rating.v <= 100 * 100

\* ========================================================================
\* chrome.runtime.onMessage listeners (popup.js:403-437, content_script.js:6-36)
\* ========================================================================
\* the message types each handleMessage has a case for
BackgroundTypes == { "ANALYZE_PAGE", "FIND_DEALS", "COMPARE_TOP3", "GET_PREFERENCES",
                     "SAVE_PREFERENCES" }
ContentTypes == { "EXTRACT_PAGE_CONTEXT", "SCRAPE_SEARCH_RESULTS", "HIGHLIGHT_ELEMENTS",
                  "INJECT_OVERLAY" }

Message(to, type) == [to |-> to, type |-> type]

\* the messages a listener can be given: those of its switch and one of
\* another type
DeliveredMessages ==
    { Message("background", ty) : ty \in BackgroundTypes \cup { "PING" } } \cup
    { Message("content", ty) : ty \in ContentTypes \cup { "PING" } }

\* handleMessage has a case for the message
KnownType(msg) ==
    IF msg.to = "background" THEN msg.type \in BackgroundTypes ELSE msg.type \in ContentTypes

\* the handler of the message awaits a promise that nothing bounds: the
\* fetch of POST /search/ebay and chrome.tabs.sendMessage in gatherCandidates
AwaitsUnbounded(msg) == msg.to = "background" /\ msg.type = "FIND_DEALS"

\* what sendResponse is called with
ResultOf(msg) == [kind |-> "result", of |-> msg.type]
ErrorOf(msg) == [kind |-> "error", of |-> msg.type]

\* the listener is called: handleMessage(message) runs up to its first await
\* or to its end, the listener returns true
ListenerCalled(m, msg) ==
    /\ mPc[m] = "none"
    /\ mMsg' = [mMsg EXCEPT ![m] = msg]
    /\ mPc' = [mPc EXCEPT ![m] = "handling"]
    /\ UNCHANGED mSent
    /\ UNCHANGED offMessages

\* the promise of handleMessage is fulfilled: .then(sendResponse)
HandlerFulfilled(m) ==
    /\ mPc[m] = "handling"
    /\ KnownType(mMsg[m])
    /\ mSent' = [mSent EXCEPT ![m] = Append(@, ResultOf(mMsg[m]))]
    /\ mPc' = [mPc EXCEPT ![m] = "settled"]
    /\ UNCHANGED mMsg
    /\ UNCHANGED offMessages

\* the promise of handleMessage is rejected (the default case of the switch,
\* or the handler threw): .catch(error => sendResponse({ error: error.message }))
HandlerRejected(m) ==
    /\ mPc[m] = "handling"
    /\ mSent' = [mSent EXCEPT ![m] = Append(@, ErrorOf(mMsg[m]))]
    /\ mPc' = [mPc EXCEPT ![m] = "settled"]
    /\ UNCHANGED mMsg
    /\ UNCHANGED offMessages

\* a promise the handler awaits never settles: nothing resumes the handler
HandlerHangs(m) ==
    /\ mPc[m] = "handling"
    /\ AwaitsUnbounded(mMsg[m])
    /\ mPc' = [mPc EXCEPT ![m] = "hung"]
    /\ UNCHANGED << mMsg, mSent >>
    /\ UNCHANGED offMessages

MessageNext ==
    \E m \in Messages :
        \/ mPc[m] = "none" /\ \E msg \in DeliveredMessages : ListenerCalled(m, msg)
        \/ HandlerFulfilled(m)
        \/ HandlerRejected(m)
        \/ HandlerHangs(m)

MessageSpec == Init /\ [][MessageNext]_vars

\* ------------------------------------------------------------------------
\* Properties of the listeners
\* ------------------------------------------------------------------------
\* the handler of message m will not run again
HandlerOver(m) == mPc[m] \in { "settled", "hung" }

\* C28: for every message delivered to a listener sendResponse is invoked
\* exactly once, with the handler's result or with an error object (always
\* an error object for an unknown type): no message is answered twice and
\* none is left unanswered once its handler can do nothing more
C28_AnsweredExactlyOnce ==
    \A m \in Messages :
        /\ Len(mSent[m]) <= 1
        /\ HandlerOver(m) =>
               /\ Len(mSent[m]) = 1
               /\ mSent[m][1] \in { ResultOf(mMsg[m]), ErrorOf(mMsg[m]) }
               /\ ~KnownType(mMsg[m]) => mSent[m][1] = ErrorOf(mMsg[m])

\* ------------------------------------------------------------------------
\* Properties of the background tab of fetchNeweggCandidates
\* ------------------------------------------------------------------------
\* C29: every background tab fetchNeweggCandidates opened is closed by the
\* time the function has returned, whatever the content script of the tab
\* did: once gatherCandidates has returned no such tab is open
C29_TabClosedOnReturn ==
    \A r \in Runs : GatherReturned(r) => tab[r] # "open"

\* ========================================================================
\* Service worker: handleCompareTop3 (popup.js:643-706)
\* ========================================================================
\* the most results a COMPARE_TOP3 payload carries
MaxResults == 4
\* results.slice(0, 3)
CompareLimit == 3

\* the ranked result at position i of the payload; its score and its bullet
\* tell the position
ComparedResult(i, hasUrl) ==
    [listing |-> [url |-> IF hasUrl THEN JStr(<< "u", i >>) ELSE JStr(<< >>)],
     score_total |-> 1000 - 100 * i,
     explanation_bullets |-> << i >>]

\* payload.results: up to MaxResults ranked results, each with or without a url
ResultLists ==
    UNION { { [i \in 1..n |-> ComparedResult(i, i \in withUrl)] : withUrl \in SUBSET (1..n) } :
            n \in 0..MaxResults }

\* const top3 = results.slice(0, 3)
Top3(results) == SubSeq(results, 1, Min(CompareLimit, Len(results)))

\* the loop over top3 from position i on: the first result with a url, 0 when
\* there is none (if (!url) continue)
NextWithUrl(top3, i) ==
    LET at == { k \in i..Len(top3) : Truthy(top3[k].listing.url) }
    IN  IF at = { } THEN 0 ELSE CHOOSE k \in at : \A j \in at : k <= j

\* a tab chrome.tabs.create resolved with
OpenedTab(id, url) == [id |-> id, url |-> url]

\* the message of the timer callback to tabIds[i]
Highlight(tabId, res) ==
    [to |-> tabId, type |-> "HIGHLIGHT_ELEMENTS",
     score |-> res.score_total, bullets |-> res.explanation_bullets]

\* the timer callback: for (let i = 0; i < tabIds.length; i++) with
\* result = top3[i]
HighlightsSent(top3, tabs) ==
    [i \in 1..Len(tabs) |-> Highlight(tabs[i].id, top3[i])]

\* where handleCompareTop3 goes after the loop over top3: to the await of
\* chrome.tabs.group when a tab was opened, else to its return
AfterCreateLoop(tabs) == IF Len(tabs) > 0 THEN "group" ELSE "return"

\* COMPARE_TOP3 is delivered: handleCompareTop3 throws on an empty list, or
\* runs up to the first await of chrome.tabs.create
CompareMessage(results) ==
    /\ kPc = "idle"
    /\ kResults' = results
    /\ IF Len(results) = 0
       THEN /\ kPc' = "done"
            /\ kResponse' = [error |-> "No results to compare"]
       ELSE /\ kPc' = IF NextWithUrl(Top3(results), 1) # 0 THEN "create"
                      ELSE AfterCreateLoop(<< >>)
            /\ UNCHANGED kResponse
    /\ UNCHANGED << kTabs, kTimer, kHighlights >>
    /\ UNCHANGED offCompare

\* chrome.tabs.create settles for the next result with a url: tabIds.push
\* and on to the next create or out of the loop; a rejection leaves the
\* handler
CompareTabCreated(ok) ==
    /\ kPc = "create"
    /\ LET top3 == Top3(kResults)
           \* the results with a url before this one are those with a tab
           RECURSIVE Nth(_, _)
           Nth(from, n) == IF n = 0 THEN NextWithUrl(top3, from)
                           ELSE Nth(NextWithUrl(top3, from) + 1, n - 1)
           at == Nth(1, Len(kTabs))
           tabs == Append(kTabs, OpenedTab(100 + Len(kTabs) + 1, top3[at].listing.url))
       IN  IF ok
           THEN /\ kTabs' = tabs
                /\ kPc' = IF NextWithUrl(top3, at + 1) # 0 THEN "create"
                          ELSE AfterCreateLoop(tabs)
                /\ UNCHANGED kResponse
           ELSE /\ kPc' = "done"
                /\ kResponse' = [error |-> "tabs.create"]
                /\ UNCHANGED kTabs
    /\ UNCHANGED << kResults, kTimer, kHighlights >>
    /\ UNCHANGED offCompare

\* chrome.tabs.group and chrome.tabGroups.update settle: the timer is set
\* when both resolved, a rejection is caught and logged; on to the await of
\* chrome.tabs.update
CompareGrouped(ok) ==
    /\ kPc = "group"
    /\ kTimer' = ok
    /\ kPc' = "activate"
    /\ UNCHANGED << kResults, kTabs, kHighlights, kResponse >>
    /\ UNCHANGED offCompare

\* chrome.tabs.update(tabIds[0], { active: true }) settles
CompareActivated(ok) ==
    /\ kPc = "activate"
    /\ kPc' = IF ok THEN "return" ELSE "done"
    /\ kResponse' = IF ok THEN kResponse ELSE [error |-> "tabs.update"]
    /\ UNCHANGED << kResults, kTabs, kTimer, kHighlights >>
    /\ UNCHANGED offCompare

\* return { success: true, tabs_opened: tabIds.length }
CompareReturn ==
    /\ kPc = "return"
    /\ kPc' = "done"
    /\ kResponse' = [success |-> TRUE, tabs_opened |-> Len(kTabs)]
    /\ UNCHANGED << kResults, kTabs, kTimer, kHighlights >>
    /\ UNCHANGED offCompare

\* the 2000 ms timer fires: one HIGHLIGHT_ELEMENTS message per opened tab
CompareTimer ==
    /\ kTimer
    /\ kTimer' = FALSE
    /\ kHighlights' = HighlightsSent(Top3(kResults), kTabs)
    /\ UNCHANGED << kPc, kResults, kTabs, kResponse >>
    /\ UNCHANGED offCompare

CompareNext ==
    \/ kPc = "idle" /\ \E results \in ResultLists : CompareMessage(results)
    \/ \E ok \in BOOLEAN : CompareTabCreated(ok)
    \/ \E ok \in BOOLEAN : CompareGrouped(ok)
    \/ \E ok \in BOOLEAN : CompareActivated(ok)
    \/ CompareReturn
    \/ CompareTimer

CompareSpec == Init /\ [][CompareNext]_vars

\* ------------------------------------------------------------------------
\* Properties of handleCompareTop3
\* ------------------------------------------------------------------------
\* the result of top3 a tab was opened with
ResultOfTab(tabId) ==
    LET opened == CHOOSE k \in 1..Len(kTabs) : kTabs[k].id = tabId
    IN  CHOOSE r \in Elements(Top3(kResults)) : r.listing.url = kTabs[opened].url

\* C30: the HIGHLIGHT_ELEMENTS message sent to each opened tab carries the
\* score_total and the explanation_bullets of the result whose URL the tab
\* was opened with, also when results without a URL were skipped; and
\* tabs_opened is the number of top-three results that have a URL
C30_HighlightMatchesTab ==
    /\ \A i \in 1..Len(kHighlights) :
           /\ kHighlights[i].score = ResultOfTab(kHighlights[i].to).score_total
           /\ kHighlights[i].bullets = ResultOfTab(kHighlights[i].to).explanation_bullets
    /\ (kPc = "done" /\ "tabs_opened" \in DOMAIN kResponse) =>
           kResponse.tabs_opened =
               Cardinality({ k \in 1..Len(Top3(kResults)) : Truthy(Top3(kResults)[k].listing.url) })

====
